---- MODULE Spec2Model ----
(***************************************************************************)
(* memex: validated schema and query operations over a SQLite store.       *)
(*                                                                         *)
(* The model follows src/memex/db/connection.py (Database.connect,         *)
(* ensure_schema_ops, record_schema_op), src/memex/ops/schema.py           *)
(* (transpile, execute) and src/memex/ops/query.py (execute and the four   *)
(* _execute_* functions).  The store is the file-backed SQLite database as *)
(* the code reaches it through Python's sqlite3 module: statements are     *)
(* records of tokens built by the code, bound parameters travel beside     *)
(* them, and the connection opens a transaction implicitly before INSERT,  *)
(* UPDATE and DELETE only, so that a DDL statement run outside a           *)
(* transaction is committed as soon as it has run.                         *)
(***************************************************************************)
EXTENDS Integers, Sequences, FiniteSets, TLC

VARIABLES
    disk,     \* the committed content of the database file
    cur,      \* the content as the open connection sees it
    scope,    \* "closed" | "open": whether a connect() scope is active
    inTx,     \* sqlite3.Connection.in_transaction of the open connection
    last,     \* the latest call of the scope: how it ended and, for a schema
              \* operation or row write that succeeded, the operation and the
              \* value returned
    raised,   \* the exception that left the latest scope, or NoExc
    clock,    \* number of executor calls that changed the store so far
    files,    \* what lies beside the database content: path |-> content
    log,      \* the invocations of the function wrapped by cached_llm that returned
    pc        \* the executor call under way on the connection, if any

vars == <<disk, cur, scope, inTx, last, raised, clock, files, log, pc>>

----------------------------------------------------------------------------
(* Bounds of the model.                                                    *)

MaxOps == 3
MaxId == 3

----------------------------------------------------------------------------
(* Names and values.                                                       *)

LEDGER == "_schema_ops"
NULL == "<NULL>"
INJ == "'; DROP TABLE people; --"
NoExc == "none"

UserTables == {"people"}
TableNames == UserTables \cup {LEDGER}
TextVals == {"a", INJ}
Ids == 1..MaxId

Range(s) == {s[i] : i \in DOMAIN s}

Max(S) == CHOOSE m \in S : \A k \in S : k <= m

ColumnType == {"text", "integer", "real", "date", "datetime", "boolean"}

_TYPE_MAP ==
    [ty \in ColumnType |->
        CASE ty = "text" -> "TEXT"
          [] ty = "integer" -> "INTEGER"
          [] ty = "real" -> "REAL"
          [] ty = "date" -> "DATE"
          [] ty = "datetime" -> "DATETIME"
          [] ty = "boolean" -> "BOOLEAN"]

----------------------------------------------------------------------------
(* Text.  Names and SQL texts are strings; Char(s, i) is the i-th          *)
(* character of s.                                                         *)

MaxLen == 3

Char(s, i) == SubSeq(s, i, i)

Chars(s) == {Char(s, i) : i \in 1..Len(s)}

ascii_lowercase == "abcdefghijklmnopqrstuvwxyz"
ascii_uppercase == "ABCDEFGHIJKLMNOPQRSTUVWXYZ"
\* The texts of at most n characters drawn from letters, underscore, a
\* digit, a space, a hyphen, a quote and a newline.
RECURSIVE Texts(_)
Texts(n) ==
    IF n = 0 THEN {""}
    ELSE LET shorter == Texts(n - 1)
         IN  shorter \cup {s \o c : s \in shorter, c \in {"a", "Z", "_", "7", " ", "-", "'", "\n"}}

\* Every text of at most MaxLen characters of the alphabet.
Names == Texts(MaxLen)

\* repr(s) of a str
RECURSIVE Escaped(_)
Escaped(s) ==
    IF s = "" THEN ""
    ELSE (IF Head(s) = "\n" THEN "\\n" ELSE Head(s)) \o Escaped(Tail(s))

repr(s) ==
    IF "'" \in Chars(s) THEN "\"" \o Escaped(s) \o "\"" ELSE "'" \o Escaped(s) \o "'"

\* str.lower on the characters a name can hold
RECURSIVE lower(_)
lower(s) ==
    IF s = "" THEN ""
    ELSE LET c == Head(s)
             at == {i \in 1..Len(ascii_uppercase) : Char(ascii_uppercase, i) = c}
         IN  (IF at = {} THEN c ELSE Char(ascii_lowercase, CHOOSE i \in at : TRUE)) \o lower(Tail(s))

\* str.upper on the characters a statement can hold
RECURSIVE upper(_)
upper(s) ==
    IF s = "" THEN ""
    ELSE LET c == Head(s)
             at == {i \in 1..Len(ascii_lowercase) : Char(ascii_lowercase, i) = c}
         IN  (IF at = {} THEN c ELSE Char(ascii_uppercase, CHOOSE i \in at : TRUE)) \o upper(Tail(s))

whitespace == {" ", "\t", "\n", "\r"}

\* str.strip: leading whitespace goes, then trailing whitespace
RECURSIVE strip(_)
strip(s) ==
    IF s # "" /\ Head(s) \in whitespace THEN strip(Tail(s))
    ELSE IF s # "" /\ Char(s, Len(s)) \in whitespace THEN strip(SubSeq(s, 1, Len(s) - 1))
    ELSE s

\* str.startswith
startswith(s, prefix) == Len(s) >= Len(prefix) /\ SubSeq(s, 1, Len(prefix)) = prefix

----------------------------------------------------------------------------
(* The store: tables with their column list, rows and AUTOINCREMENT        *)
(* counter (sqlite_sequence), and the numbers of the schema.execute calls  *)
(* whose DDL statement the store holds the effect of.                      *)

EmptyRows == [i \in {} |-> <<>>]

EmptyStore == [tables |-> [t \in {} |-> <<>>], ddl |-> {}, views |-> {}]

ColNamesOf(tbl) == {tbl.cols[i].name : i \in DOMAIN tbl.cols}

DataColsOf(tbl) == {tbl.cols[i].name : i \in {j \in DOMAIN tbl.cols : ~tbl.cols[j].pk}}

ColByName(tbl, c) == tbl.cols[CHOOSE i \in DOMAIN tbl.cols : tbl.cols[i].name = c]

HasTable(store, t) == t \in DOMAIN store.tables

WithTable(store, t, tbl) ==
    [store EXCEPT !.tables =
        [u \in DOMAIN store.tables \cup {t} |-> IF u = t THEN tbl ELSE store.tables[u]]]

----------------------------------------------------------------------------
(* SQL statements as the code builds them.  A statement is a record of     *)
(* tokens; a value position holds either a placeholder [ph |-> name],      *)
(* bound by the engine to params[name], or text written into the           *)
(* statement [lit |-> text].                                               *)

Ph(name) == [ph |-> name]

IsPh(tok) == "ph" \in DOMAIN tok

Resolve(tok, params) == IF IsPh(tok) THEN params[tok.ph] ELSE tok.lit

\* Column definition tokens <<name, TYPE, constraint...>> as the engine reads them.
ColOfDef(d) ==
    [name |-> d[1],
     type |-> d[2],
     notnull |-> "NOT NULL" \in Range(d),
     pk |-> "PRIMARY KEY AUTOINCREMENT" \in Range(d),
     dflt |-> IF "DEFAULT (datetime('now'))" \in Range(d) THEN "datetime('now')" ELSE ""]

RECURSIVE Ascending(_)
Ascending(S) ==
    IF S = {} THEN <<>>
    ELSE LET m == CHOOSE x \in S : \A y \in S : x <= y
         IN <<m>> \o Ascending(S \ {m})

Fail(store, e) == [err |-> e, store |-> store, lastrowid |-> 0, rows |-> <<>>]

Done(store, rowid, rows) == [err |-> "", store |-> store, lastrowid |-> rowid, rows |-> rows]

----------------------------------------------------------------------------
(* The engine: what one statement does to a store.  n numbers the executor *)
(* call that issues it (a DDL statement is remembered under it; a          *)
(* defaulted applied_at is the text of it).                                *)

ExecCreateTable(store, stmt, n) ==
    LET names == [i \in DOMAIN stmt.defs |-> stmt.defs[i][1]]
    IN  IF HasTable(store, stmt.table) \/ stmt.table \in store.views
        THEN IF stmt.ifNotExists THEN Done(store, 0, <<>>)
             ELSE Fail(store, "OperationalError")
        ELSE IF startswith(lower(stmt.table), "sqlite_")
        THEN Fail(store, "OperationalError")
        ELSE IF \E i, j \in DOMAIN names : i # j /\ names[i] = names[j]
        THEN Fail(store, "OperationalError")
        ELSE Done([WithTable(store, stmt.table,
                        [cols |-> [i \in DOMAIN stmt.defs |-> ColOfDef(stmt.defs[i])],
                         rows |-> EmptyRows,
                         seq |-> 0])
                     EXCEPT !.ddl = @ \cup {n}], 0, <<>>)

ExecAddColumn(store, stmt, n) ==
    IF ~HasTable(store, stmt.table) THEN Fail(store, "OperationalError")
    ELSE LET tbl == store.tables[stmt.table]
             col == ColOfDef(stmt.def)
         IN  IF col.name \in ColNamesOf(tbl) THEN Fail(store, "OperationalError")
             ELSE IF col.notnull /\ DOMAIN tbl.rows # {} THEN Fail(store, "OperationalError")
             ELSE Done([WithTable(store, stmt.table,
                            [tbl EXCEPT
                                !.cols = Append(@, col),
                                !.rows = [i \in DOMAIN tbl.rows |->
                                            [c \in DOMAIN tbl.rows[i] \cup {col.name} |->
                                                IF c = col.name THEN NULL ELSE tbl.rows[i][c]]]])
                          EXCEPT !.ddl = @ \cup {n}], 0, <<>>)

ExecDropColumn(store, stmt, n) ==
    IF ~HasTable(store, stmt.table) THEN Fail(store, "OperationalError")
    ELSE LET tbl == store.tables[stmt.table]
         IN  IF stmt.column \notin ColNamesOf(tbl) THEN Fail(store, "OperationalError")
             ELSE IF ColByName(tbl, stmt.column).pk THEN Fail(store, "OperationalError")
             ELSE Done([WithTable(store, stmt.table,
                            [tbl EXCEPT
                                !.cols = SelectSeq(@, LAMBDA c : c.name # stmt.column),
                                !.rows = [i \in DOMAIN tbl.rows |->
                                            [c \in DOMAIN tbl.rows[i] \ {stmt.column} |->
                                                tbl.rows[i][c]]]])
                          EXCEPT !.ddl = @ \cup {n}], 0, <<>>)

ExecInsert(store, stmt, params, n) ==
    IF ~HasTable(store, stmt.table) THEN Fail(store, "OperationalError")
    ELSE LET tbl == store.tables[stmt.table]
             given == Range(stmt.cols)
             val(c) == Resolve(stmt.vals[CHOOSE i \in DOMAIN stmt.cols : stmt.cols[i] = c], params)
             auto == Max({tbl.seq} \cup DOMAIN tbl.rows) + 1
             id == IF "id" \in given THEN val("id") ELSE auto
             row == [c \in DataColsOf(tbl) |->
                        IF c \in given THEN val(c)
                        ELSE IF ColByName(tbl, c).dflt # "" THEN ToString(n)
                        ELSE NULL]
         IN  IF ~(given \subseteq ColNamesOf(tbl)) THEN Fail(store, "OperationalError")
             ELSE IF \E c \in DataColsOf(tbl) : ColByName(tbl, c).notnull /\ row[c] = NULL
             THEN Fail(store, "IntegrityError")
             ELSE IF id \in DOMAIN tbl.rows THEN Fail(store, "IntegrityError")
             ELSE Done(WithTable(store, stmt.table,
                            [tbl EXCEPT
                                !.rows = [i \in DOMAIN tbl.rows \cup {id} |->
                                            IF i = id THEN row ELSE tbl.rows[i]],
                                !.seq = Max({tbl.seq, id})]), id, <<>>)

ExecUpdate(store, stmt, params) ==
    IF ~HasTable(store, stmt.table) THEN Fail(store, "OperationalError")
    ELSE LET tbl == store.tables[stmt.table]
             given == {stmt.set[i][1] : i \in DOMAIN stmt.set}
             val(c) == Resolve(stmt.set[CHOOSE i \in DOMAIN stmt.set : stmt.set[i][1] = c][2], params)
             id == Resolve(stmt.where, params)
             newid == IF "id" \in given THEN val("id") ELSE id
             row == [c \in DataColsOf(tbl) |-> IF c \in given THEN val(c) ELSE tbl.rows[id][c]]
         IN  IF ~(given \subseteq ColNamesOf(tbl)) THEN Fail(store, "OperationalError")
             ELSE IF id \notin DOMAIN tbl.rows THEN Done(store, 0, <<>>)
             ELSE IF \E c \in DataColsOf(tbl) : ColByName(tbl, c).notnull /\ row[c] = NULL
             THEN Fail(store, "IntegrityError")
             ELSE IF newid # id /\ newid \in DOMAIN tbl.rows THEN Fail(store, "IntegrityError")
             ELSE Done(WithTable(store, stmt.table,
                            [tbl EXCEPT
                                !.rows = [i \in (DOMAIN tbl.rows \ {id}) \cup {newid} |->
                                            IF i = newid THEN row ELSE tbl.rows[i]]]), 0, <<>>)

ExecDelete(store, stmt, params) ==
    IF ~HasTable(store, stmt.table) THEN Fail(store, "OperationalError")
    ELSE LET tbl == store.tables[stmt.table]
             id == Resolve(stmt.where, params)
         IN  Done(WithTable(store, stmt.table,
                      [tbl EXCEPT !.rows = [i \in DOMAIN tbl.rows \ {id} |-> tbl.rows[i]]]),
                  0, <<>>)

\* SELECT <what> FROM <table> WHERE <col> = <value>, rows in rowid order.
ExecSelect(store, stmt, params) ==
    IF ~HasTable(store, stmt.table) THEN Fail(store, "OperationalError")
    ELSE LET tbl == store.tables[stmt.table]
             v == Resolve(stmt.where, params)
             hit == IF stmt.col = "id" THEN DOMAIN tbl.rows \cap {v}
                    ELSE {i \in DOMAIN tbl.rows : tbl.rows[i][stmt.col] = v}
             ids == Ascending(hit)
         IN  IF stmt.col \notin ColNamesOf(tbl) THEN Fail(store, "OperationalError")
             ELSE Done(store, 0,
                       [k \in DOMAIN ids |->
                          IF stmt.what = "1" THEN <<"1">> ELSE <<ids[k], tbl.rows[ids[k]]>>])

Exec(store, stmt, params, n) ==
    CASE stmt.verb = "CREATE TABLE" -> ExecCreateTable(store, stmt, n)
      [] stmt.verb = "ALTER TABLE ADD COLUMN" -> ExecAddColumn(store, stmt, n)
      [] stmt.verb = "ALTER TABLE DROP COLUMN" -> ExecDropColumn(store, stmt, n)
      [] stmt.verb = "INSERT INTO" -> ExecInsert(store, stmt, params, n)
      [] stmt.verb = "UPDATE" -> ExecUpdate(store, stmt, params)
      [] stmt.verb = "DELETE FROM" -> ExecDelete(store, stmt, params)
      [] stmt.verb = "SELECT" -> ExecSelect(store, stmt, params)

----------------------------------------------------------------------------
(* sqlite3.Connection.execute under the module's default transaction       *)
(* control: BEGIN is issued before a compiled INSERT, UPDATE or DELETE     *)
(* when no transaction is open, and before nothing else; a statement run   *)
(* with no transaction open is committed when it has run.                  *)

Conn(c, d, t) == [cur |-> c, disk |-> d, inTx |-> t]

\* (CHOOSE out \in {e(r) : r \in {x}} : TRUE is e(x), with x evaluated once.)
ConnExecute(conn, stmt, params, n) ==
    LET dml == stmt.verb \in {"INSERT INTO", "UPDATE", "DELETE FROM"}
    IN  CHOOSE out \in
            {[err |-> r.err,
              lastrowid |-> r.lastrowid,
              rows |-> r.rows,
              conn |-> IF conn.inTx \/ (dml /\ r.err # "OperationalError")
                       THEN Conn(r.store, conn.disk, TRUE)
                       ELSE Conn(r.store, r.store, FALSE)] :
                r \in {Exec(conn.cur, stmt, params, n)}} : TRUE

----------------------------------------------------------------------------
(* Operation values (validated at construction) and the inputs drawn.      *)

ColumnDef(name, type, nullable) == [name |-> name, type |-> type, nullable |-> nullable]

NameCol == ColumnDef("name", "text", FALSE)
EmailCol == ColumnDef("email", "text", TRUE)

CreateTableOps ==
    {[kind |-> "CreateTable", table |-> t, columns |-> cs] : t \in UserTables, cs \in {<<NameCol>>, <<NameCol, EmailCol>>, <<NameCol, NameCol>>}}

AddColumnOps ==
    {[kind |-> "AddColumn", table |-> t, column |-> c, type |-> "text", nullable |-> nl] :
        t \in UserTables, c \in {"id", "name", "email"}, nl \in BOOLEAN}

DropColumnOps ==
    {[kind |-> "DropColumn", table |-> t, column |-> c] :
        t \in UserTables, c \in {"id", "name", "email"}}

SchemaOps == CreateTableOps \cup AddColumnOps \cup DropColumnOps

\* data for each table: its own columns, and one column the table lacks
DataFor(t) ==
    IF t = LEDGER THEN {[k \in {"op_type"} |-> "a"], [k \in {"op_type", "op_json"} |-> "a"]}
    ELSE {[k \in {"name"} |-> v] : v \in TextVals}
         \cup {[k \in {"name", "email"} |-> "a"]}
         \cup {[k \in {"id", "name"} |-> IF k = "id" THEN i ELSE "a"] : i \in {1, MaxId}}
         \cup {[k \in {"op_type"} |-> "a"]}

\* dict iteration order of the data keys
Keys(data) == SelectSeq(<<"id", "name", "email", "op_type", "op_json">>, LAMBDA k : k \in DOMAIN data)

InsertOps ==
    UNION {{[kind |-> "Insert", table |-> t, data |-> d] : d \in DataFor(t)} : t \in TableNames}

UpdateOps ==
    UNION {{[kind |-> "Update", table |-> t, id |-> i, data |-> d] :
                i \in Ids, d \in DataFor(t)} : t \in TableNames}

DeleteOps == {[kind |-> "Delete", table |-> t, id |-> i] : t \in TableNames, i \in Ids}

\* SELECT * FROM <table> WHERE <col> = :v with params {v: value}
QueryOps ==
    {[kind |-> "Query",
      sql |-> [verb |-> "SELECT", what |-> "*", table |-> t, col |-> c, where |-> Ph("v")],
      params |-> [k \in {"v"} |-> v]] :
        t \in TableNames, c \in {"name", "op_type"}, v \in TextVals}

----------------------------------------------------------------------------
(* ops/schema.py: the DDL transpiler.                                      *)

\* _column_def with the constraint on the nullable columns
_column_def_swapped(col) ==
    <<col.name, _TYPE_MAP[col.type]>> \o (IF col.nullable THEN <<"NOT NULL">> ELSE <<>>)

_column_def(col) ==
    <<col.name, _TYPE_MAP[col.type]>> \o (IF col.nullable THEN <<>> ELSE <<"NOT NULL">>)

\* Variant: the column list as given, with no id column before it.
_transpile_create_table_no_id(op) ==
    [verb |-> "CREATE TABLE",
     ifNotExists |-> FALSE,
     table |-> op.table,
     defs |-> [i \in DOMAIN op.columns |-> _column_def(op.columns[i])]]

_transpile_create_table(op) ==
    [verb |-> "CREATE TABLE",
     ifNotExists |-> FALSE,
     table |-> op.table,
     defs |-> <<<<"id", "INTEGER", "PRIMARY KEY AUTOINCREMENT">>>>
                \o [i \in DOMAIN op.columns |-> _column_def(op.columns[i])]]

\* _transpile_add_column without the constraint
_transpile_add_column_bare(op) ==
    [verb |-> "ALTER TABLE ADD COLUMN",
     table |-> op.table,
     def |-> <<op.column, _TYPE_MAP[op.type]>>]

_transpile_add_column(op) ==
    [verb |-> "ALTER TABLE ADD COLUMN",
     table |-> op.table,
     def |-> <<op.column, _TYPE_MAP[op.type]>> \o (IF op.nullable THEN <<>> ELSE <<"NOT NULL">>)]

_transpile_drop_column(op) ==
    [verb |-> "ALTER TABLE DROP COLUMN", table |-> op.table, column |-> op.column]

transpile(op) ==
    CASE op.kind = "CreateTable" -> _transpile_create_table(op)
      [] op.kind = "AddColumn" -> _transpile_add_column(op)
      [] op.kind = "DropColumn" -> _transpile_drop_column(op)

_get_op_type(op) ==
    CASE op.kind = "CreateTable" -> "create_table"
      [] op.kind = "AddColumn" -> "add_column"
      [] op.kind = "DropColumn" -> "drop_column"

\* op.model_dump_json(): the operation's fields as text
model_dump_json(op) == ToString([f \in DOMAIN op \ {"kind"} |-> op[f]])

----------------------------------------------------------------------------
(* db/connection.py: the audit ledger.                                     *)

EnsureSQL ==
    [verb |-> "CREATE TABLE",
     ifNotExists |-> TRUE,
     table |-> LEDGER,
     defs |-> << <<"id", "INTEGER", "PRIMARY KEY AUTOINCREMENT">>,
                 <<"op_type", "TEXT", "NOT NULL">>,
                 <<"op_json", "TEXT", "NOT NULL">>,
                 <<"applied_at", "TEXT", "NOT NULL", "DEFAULT (datetime('now'))">> >>]

\* Variant: CREATE TABLE without IF NOT EXISTS.
ensure_schema_ops_plain(conn) ==
    ConnExecute(conn, [EnsureSQL EXCEPT !.ifNotExists = FALSE], <<>>, 0)

\* 0: the ledger's own DDL is no schema.execute call
ensure_schema_ops(conn) == ConnExecute(conn, EnsureSQL, <<>>, 0)

RecordSQL ==
    [verb |-> "INSERT INTO",
     table |-> LEDGER,
     cols |-> <<"op_type", "op_json">>,
     vals |-> <<Ph(1), Ph(2)>>]

record_schema_op(conn, op_type, op_json, n) ==
    ConnExecute(conn, RecordSQL, <<op_type, op_json>>, n)

----------------------------------------------------------------------------
(* The executors.  Each returns the exception raised ("" when none), the   *)
(* connection afterwards, the value returned and the statements issued.    *)

Outcome(exc, conn, ret, sql) == [exc |-> exc, conn |-> conn, ret |-> ret, sql |-> sql]

RowNotFound(id, table) == "Row with id " \o ToString(id) \o " not found in table " \o table

\* ops/schema.py execute
schema_execute(conn, op, n) ==
    LET sql == transpile(op)
        Record(r1) ==
            CHOOSE out \in
                {Outcome(r2.err, r2.conn, "None", <<sql, RecordSQL>>) :
                    r2 \in {record_schema_op(r1.conn, _get_op_type(op), model_dump_json(op), n)}} : TRUE
    IN  CHOOSE out \in
            {IF r1.err # "" THEN Outcome(r1.err, r1.conn, "None", <<sql>>) ELSE Record(r1) :
                r1 \in {ConnExecute(conn, sql, <<>>, n)}} : TRUE

_execute_query(conn, op, n) ==
    CHOOSE out \in
        {Outcome(r.err, r.conn, r.rows, <<op.sql>>) :
            r \in {ConnExecute(conn, op.sql, op.params, n)}} : TRUE

\* Variant: the values written into the statement text.
_execute_insert_inline(conn, op, n) ==
    LET columns == Keys(op.data)
        sql == [verb |-> "INSERT INTO",
                table |-> op.table,
                cols |-> columns,
                vals |-> [i \in DOMAIN columns |-> [lit |-> op.data[columns[i]]]]]
    IN  CHOOSE out \in
            {Outcome(r.err, r.conn, r.lastrowid, <<sql>>) :
                r \in {ConnExecute(conn, sql, op.data, n)}} : TRUE

\* Variant: return cursor.rowcount in place of cursor.lastrowid.
_execute_insert_rowcount(conn, op, n) ==
    LET columns == Keys(op.data)
        sql == [verb |-> "INSERT INTO",
                table |-> op.table,
                cols |-> columns,
                vals |-> [i \in DOMAIN columns |-> Ph(columns[i])]]
    IN  CHOOSE out \in
            {Outcome(r.err, r.conn, 1, <<sql>>) :
                r \in {ConnExecute(conn, sql, op.data, n)}} : TRUE

_execute_insert(conn, op, n) ==
    LET columns == Keys(op.data)
        sql == [verb |-> "INSERT INTO",
                table |-> op.table,
                cols |-> columns,
                vals |-> [i \in DOMAIN columns |-> Ph(columns[i])]]
    IN  CHOOSE out \in
            {Outcome(r.err, r.conn, r.lastrowid, <<sql>>) :
                r \in {ConnExecute(conn, sql, op.data, n)}} : TRUE

ExistsSQL(table) ==
    [verb |-> "SELECT", what |-> "1", table |-> table, col |-> "id", where |-> Ph("id")]

\* Variant: the UPDATE without the SELECT before it.
_execute_update_unchecked(conn, op, n) ==
    LET columns == Keys(op.data)
        params == [k \in DOMAIN op.data \cup {"id"} |-> IF k = "id" THEN op.id ELSE op.data[k]]
        sql == [verb |-> "UPDATE",
                table |-> op.table,
                set |-> [i \in DOMAIN columns |-> <<columns[i], Ph(columns[i])>>],
                where |-> Ph("id")]
    IN  CHOOSE out \in
            {Outcome(r2.err, r2.conn, "None", <<sql>>) :
                r2 \in {ConnExecute(conn, sql, params, n)}} : TRUE

\* Variant: the bound parameters built as id overlaid by data.
_execute_update_data_over_id(conn, op, n) ==
    LET check == ExistsSQL(op.table)
        columns == Keys(op.data)
        params == [k \in DOMAIN op.data \cup {"id"} |-> IF k \in DOMAIN op.data THEN op.data[k] ELSE op.id]
        sql == [verb |-> "UPDATE",
                table |-> op.table,
                set |-> [i \in DOMAIN columns |-> <<columns[i], Ph(columns[i])>>],
                where |-> Ph("id")]
        Write(r1) ==
            CHOOSE out \in
                {Outcome(r2.err, r2.conn, "None", <<check, sql>>) :
                    r2 \in {ConnExecute(r1.conn, sql, params, n)}} : TRUE
    IN  CHOOSE out \in
            {IF r1.err # "" THEN Outcome(r1.err, r1.conn, "None", <<check>>)
             ELSE IF r1.rows = <<>>
             THEN Outcome(RowNotFound(op.id, op.table), r1.conn, "None", <<check>>)
             ELSE Write(r1) :
                r1 \in {ConnExecute(conn, check, [k \in {"id"} |-> op.id], n)}} : TRUE

_execute_update(conn, op, n) ==
    LET check == ExistsSQL(op.table)
        columns == Keys(op.data)
        params == [k \in DOMAIN op.data \cup {"id"} |-> IF k = "id" THEN op.id ELSE op.data[k]]
        sql == [verb |-> "UPDATE",
                table |-> op.table,
                set |-> [i \in DOMAIN columns |-> <<columns[i], Ph(columns[i])>>],
                where |-> Ph("id")]
        Write(r1) ==
            CHOOSE out \in
                {Outcome(r2.err, r2.conn, "None", <<check, sql>>) :
                    r2 \in {ConnExecute(r1.conn, sql, params, n)}} : TRUE
    IN  CHOOSE out \in
            {IF r1.err # "" THEN Outcome(r1.err, r1.conn, "None", <<check>>)
             ELSE IF r1.rows = <<>>
             THEN Outcome(RowNotFound(op.id, op.table), r1.conn, "None", <<check>>)
             ELSE Write(r1) :
                r1 \in {ConnExecute(conn, check, [k \in {"id"} |-> op.id], n)}} : TRUE

\* Variant: the existence check without the DELETE after it.
_execute_delete_checkonly(conn, op, n) ==
    LET check == ExistsSQL(op.table)
    IN  CHOOSE out \in
            {IF r1.err # "" THEN Outcome(r1.err, r1.conn, "None", <<check>>)
             ELSE IF r1.rows = <<>>
             THEN Outcome(RowNotFound(op.id, op.table), r1.conn, "None", <<check>>)
             ELSE Outcome("", r1.conn, "None", <<check>>) :
                r1 \in {ConnExecute(conn, check, [k \in {"id"} |-> op.id], n)}} : TRUE

_execute_delete(conn, op, n) ==
    LET check == ExistsSQL(op.table)
        sql == [verb |-> "DELETE FROM", table |-> op.table, where |-> Ph("id")]
        Write(r1) ==
            CHOOSE out \in
                {Outcome(r2.err, r2.conn, "None", <<check, sql>>) :
                    r2 \in {ConnExecute(r1.conn, sql, [k \in {"id"} |-> op.id], n)}} : TRUE
    IN  CHOOSE out \in
            {IF r1.err # "" THEN Outcome(r1.err, r1.conn, "None", <<check>>)
             ELSE IF r1.rows = <<>>
             THEN Outcome(RowNotFound(op.id, op.table), r1.conn, "None", <<check>>)
             ELSE Write(r1) :
                r1 \in {ConnExecute(conn, check, [k \in {"id"} |-> op.id], n)}} : TRUE

\* ops/query.py execute
query_execute(conn, op, n) ==
    CASE op.kind = "Query" -> _execute_query(conn, op, n)
      [] op.kind = "Insert" -> _execute_insert(conn, op, n)
      [] op.kind = "Update" -> _execute_update(conn, op, n)
      [] op.kind = "Delete" -> _execute_delete(conn, op, n)

----------------------------------------------------------------------------
(* The state machine: one connect() scope at a time on one database file.  *)
(* An exception raised inside the with block propagates through            *)
(* Database.connect in the same step: rollback, close, re-raise.           *)

\* Variant: commit in every case, re-raise.
Leave_CommitAlways(conn, exc) == [disk |-> conn.cur, raised |-> exc]

\* Variant: close without committing.
Leave_NeverCommit(conn, exc) == [disk |-> conn.disk, raised |-> exc]

\* Database.connect, after the yield: commit, or rollback and re-raise; close.
\* The content of the file afterwards and the exception the caller sees.
Leave(conn, exc) ==
    IF exc = NoExc
    THEN [disk |-> conn.cur, raised |-> NoExc]
    ELSE [disk |-> conn.disk, raised |-> exc]

NoCall == [kind |-> "none", outcome |-> "", op |-> <<>>, ret |-> <<>>]

\* no file beside the database, no executor call under way
NoFiles == [path \in {} |-> <<>>]
Idle == [at |-> "idle"]

\* What an earlier session leaves in the file when it runs, in one scope,
\* ensure_schema_ops and schema.execute of CreateTable(people, [name, email]).
SeededStore ==
    LET made == ensure_schema_ops(Conn(EmptyStore, EmptyStore, FALSE))
        op == [kind |-> "CreateTable", table |-> "people", columns |-> <<NameCol, EmailCol>>]
    IN  Leave(schema_execute(made.conn, op, 0).conn, NoExc).disk

\* Database(path): the file is new, or holds what an earlier session committed.
Init ==
    /\ disk \in {EmptyStore, SeededStore}
    /\ cur = disk
    /\ scope = "closed"
    /\ inTx = FALSE
    /\ last = NoCall
    /\ raised = NoExc
    /\ clock = 0
    /\ files = NoFiles
    /\ log = {}
    /\ pc = Idle

\* Database.connect, up to the yield: sqlite3.connect(path)
Connect ==
    /\ scope = "closed"
    /\ scope' = "open"
    /\ cur' = disk
    /\ inTx' = FALSE
    /\ raised' = NoExc
    /\ last' = NoCall
    /\ UNCHANGED <<disk, clock, files, log, pc>>

Close(conn, exc) ==
    LET out == Leave(conn, exc)
    IN  /\ disk' = out.disk
        /\ cur' = out.disk
        /\ raised' = out.raised
        /\ scope' = "closed"
        /\ inTx' = FALSE

\* The with block ends normally.
Exit ==
    /\ scope = "open"
    /\ Close(Conn(cur, disk, inTx), NoExc)
    /\ UNCHANGED <<last, clock, files, log, pc>>

\* The body of the with block raises an exception of its own.
BodyRaise ==
    /\ scope = "open"
    /\ Close(Conn(cur, disk, inTx), "ValueError")
    /\ UNCHANGED <<last, clock, files, log, pc>>

Here == Conn(cur, disk, inTx)

\* A call inside the with block returns, or raises through the scope.
Return(op, res) ==
    /\ IF res.exc = ""
       THEN /\ cur' = res.conn.cur
            /\ disk' = res.conn.disk
            /\ inTx' = res.conn.inTx
            /\ UNCHANGED <<scope, raised>>
       ELSE Close(res.conn, res.exc)
    /\ last' = [kind |-> op.kind,
                outcome |-> IF res.exc = "" THEN "ok" ELSE res.exc,
                op |-> IF res.exc = "" /\ op.kind # "Query" THEN op ELSE <<>>,
                ret |-> IF res.exc = "" /\ op.kind # "Query" THEN res.ret ELSE <<>>]
    /\ clock' = IF op.kind # "ensure_schema_ops" /\ (res.conn.cur # cur \/ res.conn.disk # disk)
                THEN clock + 1 ELSE clock
    /\ pc' = Idle
    /\ UNCHANGED <<files, log>>

EnsureSchemaOps ==
    /\ scope = "open"
    /\ \E r \in {ensure_schema_ops(Here)} :
          \E res \in {Outcome(r.err, r.conn, "None", <<EnsureSQL>>)} :
              Return([kind |-> "ensure_schema_ops"], res)

SchemaExecuteOp(op) ==
    /\ scope = "open"
    /\ clock < MaxOps
    /\ \E res \in {schema_execute(Here, op, clock + 1)} : Return(op, res)

SchemaExecute == \E op \in SchemaOps : SchemaExecuteOp(op)

ExecuteQuery ==
    /\ scope = "open"
    /\ clock < MaxOps
    /\ \E op \in QueryOps : \E res \in {query_execute(Here, op, clock + 1)} : Return(op, res)

ExecuteInsert ==
    /\ scope = "open"
    /\ clock < MaxOps
    /\ \E op \in InsertOps : \E res \in {query_execute(Here, op, clock + 1)} :
          /\ res.exc = "" => res.ret <= MaxId
          /\ Return(op, res)

ExecuteUpdate ==
    /\ scope = "open"
    /\ clock < MaxOps
    /\ \E op \in UpdateOps : \E res \in {query_execute(Here, op, clock + 1)} : Return(op, res)

ExecuteDelete ==
    /\ scope = "open"
    /\ clock < MaxOps
    /\ \E op \in DeleteOps : \E res \in {query_execute(Here, op, clock + 1)} : Return(op, res)

Next ==
    \/ Connect
    \/ Exit
    \/ BodyRaise
    \/ EnsureSchemaOps
    \/ SchemaExecute
    \/ ExecuteQuery
    \/ ExecuteInsert
    \/ ExecuteUpdate
    \/ ExecuteDelete

Spec == Init /\ [][Next]_vars

TypeOK ==
    /\ scope \in {"closed", "open"}
    /\ inTx \in BOOLEAN
    /\ clock \in 0..MaxOps
    /\ scope = "closed" => cur = disk /\ ~inTx
    /\ ~inTx => cur = disk

----------------------------------------------------------------------------
(* Vocabulary of the claims.                                               *)

RowsOf(store, t) == IF HasTable(store, t) THEN store.tables[t].rows ELSE EmptyRows

\* The audit rows the n-th executor call has left in a store.
AuditRows(store, n) ==
    {i \in DOMAIN RowsOf(store, LEDGER) :
        /\ store.tables[LEDGER].rows[i]["applied_at"] = ToString(n)
        /\ store.tables[LEDGER].rows[i]["op_type"] \in {"create_table", "add_column", "drop_column"}}

\* The rows of the people table with their ids.
People(store) == RowsOf(store, "people")

----------------------------------------------------------------------------
(* C1: schema.execute is all-or-nothing with its audit record: once the    *)
(* scope has ended, by commit or by rollback, the file holds the DDL       *)
(* change of a schema.execute call if and only if it holds exactly one     *)
(* audit row of that call.                                                 *)
C1_AllOrNothing ==
    scope = "closed" =>
        \A n \in 1..clock : (n \in disk.ddl) <=> (Cardinality(AuditRows(disk, n)) = 1)

----------------------------------------------------------------------------
SameRows(a, b) ==
    \A t \in DOMAIN a.tables \cup DOMAIN b.tables :
        LET ra == RowsOf(a, t)
            rb == RowsOf(b, t)
        IN  /\ DOMAIN ra = DOMAIN rb
            /\ \A i \in DOMAIN ra : \A c \in DOMAIN ra[i] \cap DOMAIN rb[i] : ra[i][c] = rb[i][c]

(* C2: when an exception propagates out of a connect() scope, no row write *)
(* of the scope is in the file afterwards (the file holds the same rows,   *)
(* with the same values, as before the step; nor does any step inside a    *)
(* scope put a row write into the file), the next scope starts from the    *)
(* file, and the caller sees the exception that was raised.                *)
C2_RollbackOnException ==
    [][ /\ (scope = "open" /\ ~(scope' = "closed" /\ raised' = NoExc)) => SameRows(disk, disk')
        /\ (scope = "open" /\ scope' = "closed" /\ raised' # NoExc) =>
              /\ cur' = disk'
              /\ raised' = IF last'.outcome \in {"", "ok"} THEN "ValueError" ELSE last'.outcome
      ]_vars

\* An Insert returned an id, an exception left the scope, the file has no such row.
C2_Witness ==
    /\ scope = "closed"
    /\ raised # NoExc
    /\ last.kind = "Insert"
    /\ last.outcome = "ok"
    /\ last.ret \notin DOMAIN RowsOf(disk, last.op.table)

----------------------------------------------------------------------------
(* C3: when a connect() scope ends without an exception, the file holds    *)
(* exactly what the connection saw, and a scope opened afterwards sees     *)
(* exactly the file.                                                       *)
C3_CommitOnSuccess ==
    [][ /\ (scope = "open" /\ scope' = "closed" /\ raised' = NoExc) => disk' = cur
        /\ (scope = "closed" /\ scope' = "open") => (cur' = disk /\ disk' = disk)
      ]_vars

\* An Insert returned an id, the scope ended normally, the file has the row.
C3_Witness ==
    /\ scope = "closed"
    /\ raised = NoExc
    /\ last.kind = "Insert"
    /\ last.outcome = "ok"
    /\ last.ret \in DOMAIN RowsOf(disk, last.op.table)
    /\ \A c \in DOMAIN last.op.data \ {"id"} :
          disk.tables[last.op.table].rows[last.ret][c] = last.op.data[c]

----------------------------------------------------------------------------
Verbs(sql) == {sql[i].verb : i \in DOMAIN sql}

(* C4: wherever a call can be made in an open scope, an Update or a Delete *)
(* of an id that no row of the (existing) table has raises 'Row with id    *)
(* {id} not found in table {table}', has issued nothing but its SELECT,    *)
(* and leaves the connection, and with it every row, as it was.            *)
C4_RowNotFound ==
    (scope = "open" /\ clock < MaxOps) =>
        \A op \in UpdateOps \cup DeleteOps :
            (HasTable(cur, op.table) /\ op.id \notin DOMAIN cur.tables[op.table].rows) =>
                LET res == query_execute(Here, op, clock + 1)
                IN  /\ res.exc = "Row with id " \o ToString(op.id) \o " not found in table " \o op.table
                    /\ Verbs(res.sql) = {"SELECT"}
                    /\ res.conn = Here

\* An Update of row 2 of people, which exists and has no row 2, has raised.
C4_Witness ==
    /\ scope = "closed"
    /\ last.kind = "Update"
    /\ raised = "Row with id 2 not found in table people"
    /\ HasTable(disk, "people")
    /\ 2 \notin DOMAIN People(disk)

----------------------------------------------------------------------------
\* The step is a successful call of the executor of the given kind; the
\* operation is last'.op, the connection saw cur before and sees cur' after.
Acted(kind) ==
    /\ scope = "open"
    /\ scope' = "open"
    /\ last'.kind = kind
    /\ last'.outcome = "ok"

OtherTablesSame(t) ==
    /\ DOMAIN cur'.tables = DOMAIN cur.tables
    /\ \A u \in DOMAIN cur.tables \ {t} : cur'.tables[u] = cur.tables[u]

(* C5: a successful Update(table, id, data) sets every column named in     *)
(* data, the column id among them, to the value given for it on the row    *)
(* whose id was id; the other columns of that row, the other rows and the  *)
(* other tables are unchanged, and the call returns None.                  *)
C5_UpdateSetsData ==
    [][ Acted("Update") =>
          LET op == last'.op
              before == cur.tables[op.table]
              after == cur'.tables[op.table]
              target == IF "id" \in DOMAIN op.data THEN op.data["id"] ELSE op.id
          IN  /\ op.id \in DOMAIN before.rows
              /\ DOMAIN after.rows = (DOMAIN before.rows \ {op.id}) \cup {target}
              /\ \A c \in DOMAIN op.data \ {"id"} : after.rows[target][c] = op.data[c]
              /\ \A c \in DOMAIN before.rows[op.id] \ DOMAIN op.data :
                    after.rows[target][c] = before.rows[op.id][c]
              /\ \A i \in DOMAIN before.rows \ {op.id} : after.rows[i] = before.rows[i]
              /\ after.cols = before.cols
              /\ OtherTablesSame(op.table)
              /\ last'.ret = "None"
      ]_vars

----------------------------------------------------------------------------
(* C6: a successful Delete(table, id) removes the row whose id is id and   *)
(* no other row, changes no other table, and in the connection it leaves   *)
(* every Update and every Delete of the same table and id raises           *)
(* 'Row with id {id} not found in table {table}'.                          *)
C6_DeleteRemovesRow ==
    [][ Acted("Delete") =>
          LET op == last'.op
              before == cur.tables[op.table]
              after == cur'.tables[op.table]
          IN  /\ op.id \in DOMAIN before.rows
              /\ DOMAIN after.rows = DOMAIN before.rows \ {op.id}
              /\ \A i \in DOMAIN after.rows : after.rows[i] = before.rows[i]
              /\ after.cols = before.cols
              /\ OtherTablesSame(op.table)
              /\ last'.ret = "None"
              /\ \A again \in UpdateOps \cup DeleteOps :
                    (again.table = op.table /\ again.id = op.id) =>
                        query_execute(Conn(cur', disk', inTx'), again, clock' + 1).exc
                            = "Row with id " \o ToString(op.id) \o " not found in table " \o op.table
      ]_vars

\* A Delete has removed one of several rows of people.
C6_Witness ==
    /\ scope = "open"
    /\ last.kind = "Delete"
    /\ last.outcome = "ok"
    /\ last.op.table = "people"
    /\ last.op.id \notin DOMAIN People(cur)
    /\ DOMAIN People(cur) # {}
    /\ last.op.id \in DOMAIN People(disk)

----------------------------------------------------------------------------
\* The table is as CreateTable and k Inserts returning 1..k leave it.
Sequential(tbl) == DOMAIN tbl.rows = 1..tbl.seq

----------------------------------------------------------------------------
\* Every value position of the statement holds a placeholder.
Bound(stmt) ==
    CASE stmt.verb = "INSERT INTO" -> \A i \in DOMAIN stmt.vals : IsPh(stmt.vals[i])
      [] stmt.verb = "UPDATE" -> IsPh(stmt.where) /\ \A i \in DOMAIN stmt.set : IsPh(stmt.set[i][2])
      [] stmt.verb \in {"DELETE FROM", "SELECT"} -> IsPh(stmt.where)
      [] OTHER -> TRUE

\* The operation with the same table and keys and one fixed value everywhere.
SameKeys(op) ==
    IF op.kind = "Query" THEN [op EXCEPT !.params = [k \in DOMAIN op.params |-> "a"]]
    ELSE [op EXCEPT !.data = [k \in DOMAIN op.data |-> IF k = "id" THEN 1 ELSE "a"]]

----------------------------------------------------------------------------
KeepsRows(a, b) ==
    \A i \in DOMAIN RowsOf(a, LEDGER) :
        i \in DOMAIN RowsOf(b, LEDGER) /\ RowsOf(b, LEDGER)[i] = RowsOf(a, LEDGER)[i]

(* C9: the audit ledger is append-only and ordered: no step changes or     *)
(* removes an audit row, in the file or in the connection's view; a        *)
(* successful schema operation adds exactly one row, with the op_type of   *)
(* its variant and an id above every earlier one; a successful Select,     *)
(* Insert, Update or Delete adds none.                                     *)
C9_AppendOnlyLedger ==
    [][ /\ KeepsRows(disk, disk')
        /\ (scope = "open" /\ scope' = "open") => KeepsRows(cur, cur')
        /\ \A k \in {"CreateTable", "AddColumn", "DropColumn"} :
              Acted(k) =>
                  LET before == RowsOf(cur, LEDGER)
                      after == RowsOf(cur', LEDGER)
                  IN  \E r \in DOMAIN after \ DOMAIN before :
                          /\ DOMAIN after = DOMAIN before \cup {r}
                          /\ \A i \in DOMAIN before : i < r
                          /\ after[r]["op_type"] =
                                CASE k = "CreateTable" -> "create_table"
                                  [] k = "AddColumn" -> "add_column"
                                  [] k = "DropColumn" -> "drop_column"
        /\ \A k \in {"Query", "Insert", "Update", "Delete"} :
              Acted(k) => DOMAIN RowsOf(cur', LEDGER) = DOMAIN RowsOf(cur, LEDGER)
      ]_vars

----------------------------------------------------------------------------
DistinctNames(op) ==
    \A i, j \in DOMAIN op.columns : i # j => op.columns[i].name # op.columns[j].name

(* C10: schema.execute itself ensures the audit ledger: a valid            *)
(* CreateTable of an absent table, executed where _schema_ops has never    *)
(* been created, succeeds, creates _schema_ops, creates the table and      *)
(* records one create_table audit row.                                     *)
C10_ExecuteEnsuresLedger ==
    [][ \A op \in CreateTableOps :
          ( /\ scope = "open"
            /\ ~HasTable(cur, LEDGER)
            /\ ~HasTable(cur, op.table)
            /\ DistinctNames(op)
            /\ SchemaExecuteOp(op) ) =>
              /\ last'.outcome = "ok"
              /\ HasTable(cur', LEDGER)
              /\ HasTable(cur', op.table)
              /\ \E r \in DOMAIN RowsOf(cur', LEDGER) :
                    RowsOf(cur', LEDGER)[r]["op_type"] = "create_table"
      ]_vars

----------------------------------------------------------------------------
(* ops/schema.py, ops/query.py: identifier validation.                     *)

\* re.compile(r"^[a-zA-Z_][a-zA-Z0-9_]*$").match(name) is not None:
\* [a-zA-Z_], then [a-zA-Z0-9_]* up to a position where $ matches, which is
\* the end of the text and also the position before a newline that ends it.
_VALID_NAME_PATTERN_match(name) ==
    LET first == Chars(ascii_lowercase) \cup Chars(ascii_uppercase) \cup {"_"}
        rest == first \cup Chars("0123456789")
    IN  \E k \in 1..Len(name) :
            /\ Char(name, 1) \in first
            /\ \A i \in 2..k : Char(name, i) \in rest
            /\ \/ k = Len(name)
               \/ k = Len(name) - 1 /\ Char(name, Len(name)) = "\n"

\* What a validator or a constructor gives: the value, or the error raised.
Valid(v) == [err |-> "", value |-> v]

Invalid(msg) == [err |-> msg, value |-> <<>>]

\* ops/schema.py _validate_name
schema_validate_name(name, entity) ==
    IF name = "" THEN Invalid(entity \o " name cannot be empty")
    ELSE IF ~_VALID_NAME_PATTERN_match(name)
    THEN Invalid("Invalid " \o entity \o " name '" \o name
                 \o "': must be alphanumeric with underscores, cannot start with a digit")
    ELSE Valid(name)

\* ops/query.py _validate_name
query_validate_name(name) ==
    IF name = "" \/ ~_VALID_NAME_PATTERN_match(name)
    THEN Invalid("Invalid identifier: " \o repr(name))
    ELSE Valid(name)

----------------------------------------------------------------------------
(* The operation models: one call that validates a name, constructs an     *)
(* operation value from raw arguments, or transpiles an operation; it      *)
(* touches neither a connection nor the file.                              *)

\* The call made, its arguments, and the value or the error it gave.
\* ColumnDef(name=..., type=..., nullable=...): the validated constructor
ColumnDef_init(name, type, nullable) ==
    LET n == schema_validate_name(name, "column")
    IN  IF n.err # "" THEN Invalid(n.err)
        ELSE IF type \notin ColumnType
        THEN Invalid("Input should be 'text', 'integer', 'real', 'date', 'datetime' or 'boolean'")
        ELSE Valid(ColumnDef(n.value, type, nullable))

\* CreateTable with the id check comparing the name as written
CreateTable_case_sensitive(table, columns) ==
    LET t == schema_validate_name(table, "table")
    IN  IF t.err # "" THEN Invalid(t.err)
        ELSE IF columns = <<>> THEN Invalid("Table must have at least one column")
        ELSE IF \E i \in DOMAIN columns : columns[i].name = "id"
        THEN Invalid("Column 'id' is auto-managed and cannot be specified; it is added automatically as PRIMARY KEY")
        ELSE Valid([kind |-> "CreateTable", table |-> t.value, columns |-> columns])

\* CreateTable(table=..., columns=[...]): the field validator of table, then
\* (only when the fields are valid) the model validator validate_columns
CreateTable(table, columns) ==
    LET t == schema_validate_name(table, "table")
    IN  IF t.err # "" THEN Invalid(t.err)
        ELSE IF columns = <<>> THEN Invalid("Table must have at least one column")
        ELSE IF \E i \in DOMAIN columns : lower(columns[i].name) = "id"
        THEN Invalid("Column 'id' is auto-managed and cannot be specified; it is added automatically as PRIMARY KEY")
        ELSE Valid([kind |-> "CreateTable", table |-> t.value, columns |-> columns])

MaxCols == 2

\* arguments tried for ColumnDef, and the column definitions they construct
ColumnArgs ==
    {<<"name", "text", FALSE>>, <<"email", "text", TRUE>>, <<"age", "integer", TRUE>>,
     <<"score", "real", FALSE>>, <<"born", "date", TRUE>>, <<"seen", "datetime", FALSE>>,
     <<"active", "boolean", TRUE>>, <<"idx", "integer", FALSE>>,
     <<"id", "integer", FALSE>>, <<"ID", "text", TRUE>>, <<"Id", "text", TRUE>>, <<"iD", "real", TRUE>>,
     <<"a b", "text", TRUE>>, <<"", "text", TRUE>>, <<"name", "blob", TRUE>>}

\* the lists of at most MaxCols column definitions that construct
ColumnSeqs ==
    LET made == {ColumnDef_init(a[1], a[2], a[3]) : a \in ColumnArgs}
        Columns == {r.value : r \in {c \in made : c.err = ""}}
    IN  UNION {[1..n -> Columns] : n \in 0..MaxCols}

TableArgs == {"people", "_t1", "", "1abc", "a b"}

\* AddColumn(table=..., column=..., type=..., nullable=...)
AddColumn(table, column, type, nullable) ==
    LET t == schema_validate_name(table, "table")
        c == schema_validate_name(column, "column")
    IN  IF t.err # "" THEN Invalid(t.err)
        ELSE IF c.err # "" THEN Invalid(c.err)
        ELSE IF type \notin ColumnType
        THEN Invalid("Input should be 'text', 'integer', 'real', 'date', 'datetime' or 'boolean'")
        ELSE Valid([kind |-> "AddColumn", table |-> t.value, column |-> c.value,
                    type |-> type, nullable |-> nullable])

\* DropColumn(table=..., column=...)
DropColumn(table, column) ==
    LET t == schema_validate_name(table, "table")
        c == schema_validate_name(column, "column")
    IN  IF t.err # "" THEN Invalid(t.err)
        ELSE IF c.err # "" THEN Invalid(c.err)
        ELSE Valid([kind |-> "DropColumn", table |-> t.value, column |-> c.value])

ColumnNameArgs == {"email", "id", "Age_2", "", "a b"}

\* the schema operations that construction yields
ValidatedOps ==
    LET made == {CreateTable(t, cs) : t \in TableArgs, cs \in ColumnSeqs}
                \cup {AddColumn(t, c, ty, nl) : t \in TableArgs, c \in ColumnNameArgs,
                                                ty \in ColumnType \cup {"blob"}, nl \in BOOLEAN}
                \cup {DropColumn(t, c) : t \in TableArgs, c \in ColumnNameArgs}
    IN  {r.value : r \in {x \in made : x.err = ""}}

\* sep.join(parts)
RECURSIVE join(_, _)
join(sep, parts) ==
    IF parts = <<>> THEN ""
    ELSE IF Len(parts) = 1 THEN parts[1]
    ELSE parts[1] \o sep \o join(sep, Tail(parts))

\* the text of a transpiled statement: the joins and f-strings of
\* _column_def and the _transpile_* functions
sql_text(stmt) ==
    CASE stmt.verb = "CREATE TABLE" ->
            (IF stmt.ifNotExists THEN "CREATE TABLE IF NOT EXISTS " ELSE "CREATE TABLE ")
                \o stmt.table \o " ("
                \o join(", ", [i \in DOMAIN stmt.defs |-> join(" ", stmt.defs[i])]) \o ")"
      [] stmt.verb = "ALTER TABLE ADD COLUMN" ->
            "ALTER TABLE " \o stmt.table \o " ADD COLUMN " \o join(" ", stmt.def)
      [] stmt.verb = "ALTER TABLE DROP COLUMN" ->
            "ALTER TABLE " \o stmt.table \o " DROP COLUMN " \o stmt.column

\* params: dict[str, Any] = {}
NoParams == [k \in {} |-> ""]

\* Query with the test made on the text as given
Query_unstripped(kwargs) ==
    IF ~startswith(upper(kwargs.sql), "SELECT") THEN Invalid("Query SQL must start with SELECT")
    ELSE Valid([kind |-> "Query",
                sql |-> kwargs.sql,
                params |-> IF "params" \in DOMAIN kwargs THEN kwargs.params ELSE NoParams])

\* Query(sql=..., params=...) and Query(sql=...)
Query(kwargs) ==
    IF ~startswith(upper(strip(kwargs.sql)), "SELECT") THEN Invalid("Query SQL must start with SELECT")
    ELSE Valid([kind |-> "Query",
                sql |-> kwargs.sql,
                params |-> IF "params" \in DOMAIN kwargs THEN kwargs.params ELSE NoParams])

\* Query(sql=...) with and without params
QueryArgs ==
    LET SqlArgs ==
            {"SELECT 1", "select * from users", "  SeLeCt 1\n", "\tselect 1", "\r\n SELECT name FROM people",
             "SELECT", "SELECTED", "selec", "SELEC T 1", "x SELECT 1", "(SELECT 1)", "-- c\nSELECT 1",
             "INSERT INTO users VALUES (1, 'test', 'test@test.com')", "UPDATE users SET name = 'test' WHERE id = 1",
             "DELETE FROM users WHERE id = 1", "DROP TABLE users", "", " ", " \n",
             "SELECT * FROM users WHERE id = :id", "SELECT 1; DROP TABLE users"}
        ParamsArgs == {NoParams, [k \in {"id"} |-> "1"], [k \in {"v", "w"} |-> "a"]}
    IN  {[sql |-> q] : q \in SqlArgs} \cup {[sql |-> q, params |-> ps] : q \in SqlArgs, ps \in ParamsArgs}

\* Insert whose model validator checks only that data is non-empty
Insert_keys_unchecked(table, data) ==
    LET t == query_validate_name(table)
    IN  IF t.err # "" THEN Invalid(t.err)
        ELSE IF DOMAIN data = {} THEN Invalid("data cannot be empty")
        ELSE Valid([kind |-> "Insert", table |-> t.value, data |-> data])

\* Insert(table=..., data=...): the field validator of table, then (fields
\* valid) validate_data, which raises at the first key that is no identifier
Insert(table, data) ==
    LET t == query_validate_name(table)
        bad == {k \in DOMAIN data : query_validate_name(k).err # ""}
    IN  IF t.err # "" THEN Invalid(t.err)
        ELSE IF DOMAIN data = {} THEN Invalid("data cannot be empty")
        ELSE IF bad # {} THEN Invalid("Invalid identifier: " \o repr(CHOOSE k \in bad : TRUE))
        ELSE Valid([kind |-> "Insert", table |-> t.value, data |-> data])

\* Update(table=..., id=..., data=...)
Update(table, id, data) ==
    LET t == query_validate_name(table)
        bad == {k \in DOMAIN data : query_validate_name(k).err # ""}
    IN  IF t.err # "" THEN Invalid(t.err)
        ELSE IF DOMAIN data = {} THEN Invalid("data cannot be empty")
        ELSE IF bad # {} THEN Invalid("Invalid identifier: " \o repr(CHOOSE k \in bad : TRUE))
        ELSE Valid([kind |-> "Update", table |-> t.value, id |-> id, data |-> data])

\* Delete(table=..., id=...)
Delete(table, id) ==
    LET t == query_validate_name(table)
    IN  IF t.err # "" THEN Invalid(t.err)
        ELSE Valid([kind |-> "Delete", table |-> t.value, id |-> id])

DataArgs ==
    {[k \in {} |-> "a"], [k \in {"name"} |-> "a"], [k \in {"name", "email"} |-> "a"],
     [k \in {"name", "a b"} |-> "a"], [k \in {""} |-> "a"], [k \in {"1x"} |-> "a"],
     [k \in {"name; --"} |-> INJ], [k \in {"_n1"} |-> INJ]}

Called(kind, args, r) ==
    /\ last' = [kind |-> kind,
                outcome |-> IF r.err = "" THEN "ok" ELSE r.err,
                op |-> args,
                ret |-> r.value]
    /\ UNCHANGED <<disk, cur, scope, inTx, raised, clock, files, log, pc>>

SchemaValidateName ==
    /\ last = NoCall
    /\ \E name \in Names, entity \in {"table", "column"} :
       \E r \in {schema_validate_name(name, entity)} :
          Called("schema._validate_name", [name |-> name, entity |-> entity], r)

QueryValidateName ==
    /\ last = NoCall
    /\ \E name \in Names :
       \E r \in {query_validate_name(name)} :
          Called("query._validate_name", [name |-> name], r)

ConstructColumnDef ==
    /\ last = NoCall
    /\ \E a \in ColumnArgs :
       \E r \in {ColumnDef_init(a[1], a[2], a[3])} :
          Called("ColumnDef", [name |-> a[1], type |-> a[2], nullable |-> a[3]], r)

ConstructCreateTable ==
    /\ last = NoCall
    /\ \E table \in TableArgs, columns \in ColumnSeqs :
       \E r \in {CreateTable(table, columns)} :
          Called("CreateTable", [table |-> table, columns |-> columns], r)

Transpile ==
    /\ last = NoCall
    /\ \E op \in ValidatedOps :
       \E r \in {Valid(sql_text(transpile(op)))} : Called("transpile", op, r)

ConstructAddColumn ==
    /\ last = NoCall
    /\ \E table \in TableArgs, column \in ColumnNameArgs, type \in ColumnType \cup {"blob"}, nullable \in BOOLEAN :
       \E r \in {AddColumn(table, column, type, nullable)} :
          Called("AddColumn", [table |-> table, column |-> column, type |-> type, nullable |-> nullable], r)

ConstructDropColumn ==
    /\ last = NoCall
    /\ \E table \in TableArgs, column \in ColumnNameArgs :
       \E r \in {DropColumn(table, column)} :
          Called("DropColumn", [table |-> table, column |-> column], r)

ConstructQuery ==
    /\ last = NoCall
    /\ \E kwargs \in QueryArgs :
       \E r \in {Query(kwargs)} : Called("Query", kwargs, r)

ConstructInsert ==
    /\ last = NoCall
    /\ \E table \in TableArgs, data \in DataArgs :
       \E r \in {Insert(table, data)} : Called("Insert", [table |-> table, data |-> data], r)

ConstructUpdate ==
    /\ last = NoCall
    /\ \E table \in TableArgs, id \in {-1, 0, 1, MaxId}, data \in DataArgs :
       \E r \in {Update(table, id, data)} :
          Called("Update", [table |-> table, id |-> id, data |-> data], r)

ConstructDelete ==
    /\ last = NoCall
    /\ \E table \in TableArgs, id \in {-1, 0, 1, MaxId} :
       \E r \in {Delete(table, id)} : Called("Delete", [table |-> table, id |-> id], r)

NextOps ==
    \/ SchemaValidateName
    \/ QueryValidateName
    \/ ConstructColumnDef
    \/ ConstructCreateTable
    \/ ConstructAddColumn
    \/ ConstructDropColumn
    \/ Transpile
    \/ ConstructQuery
    \/ ConstructInsert
    \/ ConstructUpdate
    \/ ConstructDelete

SpecOps == Init /\ [][NextOps]_vars

----------------------------------------------------------------------------
\* s is non-empty, starts with an ASCII letter or underscore and holds
\* nothing but ASCII letters, digits and underscores.
IsIdentifier(s) ==
    LET letters == Chars("abcdefghijklmnopqrstuvwxyzABCDEFGHIJKLMNOPQRSTUVWXYZ")
    IN  /\ Len(s) > 0
        /\ Char(s, 1) \in letters \cup {"_"}
        /\ \A i \in 1..Len(s) : Char(s, i) \in letters \cup Chars("0123456789") \cup {"_"}

(* C11: both validators accept a name if and only if it is non-empty,      *)
(* starts with an ASCII letter or underscore and every character of it is  *)
(* an ASCII letter, digit or underscore.                                   *)
C11_ValidatesIdentifiers ==
    last.kind \in {"schema._validate_name", "query._validate_name"} =>
        ((last.outcome = "ok") <=> IsIdentifier(last.op.name))

-----------------------------------------------------------------------------
\* s begins with the text p
StartsWith(s, p) == Len(s) >= Len(p) /\ SubSeq(s, 1, Len(p)) = p

\* the spellings of id in every letter case
IdNames == {"id", "ID", "Id", "iD"}

-----------------------------------------------------------------------------
\* the SQL type names of the column types
TypeName(ty) ==
    CASE ty = "text" -> "TEXT"
      [] ty = "integer" -> "INTEGER"
      [] ty = "real" -> "REAL"
      [] ty = "date" -> "DATE"
      [] ty = "datetime" -> "DATETIME"
      [] ty = "boolean" -> "BOOLEAN"

\* '<name> <TYPE>', then ' NOT NULL' iff nullable is false
Rendered(name, ty, nullable) ==
    name \o " " \o TypeName(ty) \o (IF nullable THEN "" ELSE " NOT NULL")

\* ', <c1>, ..., <cn>' in the declared order
RECURSIVE Declared(_)
Declared(columns) ==
    IF columns = <<>> THEN ""
    ELSE ", " \o Rendered(columns[1].name, columns[1].type, columns[1].nullable)
              \o Declared(Tail(columns))

C14_TranspileAlterTable ==
    [][last'.kind = "transpile" =>
        /\ last'.op.kind = "AddColumn" =>
              last'.ret = "ALTER TABLE " \o last'.op.table \o " ADD COLUMN "
                            \o Rendered(last'.op.column, last'.op.type, last'.op.nullable)
        /\ last'.op.kind = "DropColumn" =>
              last'.ret = "ALTER TABLE " \o last'.op.table \o " DROP COLUMN " \o last'.op.column
        /\ last'.ret = sql_text(transpile(last'.op))
        /\ ";" \notin Chars(last'.ret)
        /\ last'.outcome = "ok"
        /\ disk' = disk /\ cur' = cur /\ scope' = scope /\ inTx' = inTx]_vars

\* a non-nullable AddColumn was transpiled beside a store that holds a table
C14_Witness ==
    /\ last.kind = "transpile"
    /\ last.op.kind = "AddColumn"
    /\ ~last.op.nullable
    /\ last.ret = "ALTER TABLE people ADD COLUMN email BOOLEAN NOT NULL"
    /\ HasTable(disk, "people")

-----------------------------------------------------------------------------
\* after leading whitespace, s holds the letters of SELECT in some letter case
BeginsWithSelect(s) ==
    \E i \in 1..(Len(s) - 5) :
        /\ \A j \in 1..(i - 1) : Char(s, j) \in {" ", "\t", "\n", "\r"}
        /\ \A k \in 1..6 : Char(s, i + k - 1) \in {Char("select", k), Char("SELECT", k)}

(* C18: a Query is constructed if and only if its sql, with surrounding    *)
(* whitespace stripped and letter case ignored, begins with SELECT; every  *)
(* other sql is rejected with 'Query SQL must start with SELECT'; the      *)
(* accepted sql is stored unmodified, and params is the mapping given, or  *)
(* the empty mapping when none is given.                                   *)
C18_QueryMustBeSelect ==
    last.kind = "Query" =>
        IF BeginsWithSelect(last.op.sql)
        THEN /\ last.outcome = "ok"
             /\ last.ret.sql = last.op.sql
             /\ DOMAIN last.ret.params =
                   (IF "params" \in DOMAIN last.op THEN DOMAIN last.op.params ELSE {})
             /\ \A k \in DOMAIN last.ret.params : last.ret.params[k] = last.op.params[k]
        ELSE last.outcome = "Query SQL must start with SELECT"

\* a lower-case select wrapped in whitespace was accepted, with no params given
C18_Witness ==
    /\ last.kind = "Query"
    /\ DOMAIN last.op = {"sql"}
    /\ last.op.sql = "  SeLeCt 1\n"
    /\ last.outcome = "ok"
    /\ last.ret.sql = "  SeLeCt 1\n"

\* name passes the identifier validation of ops/query.py
Passes(name) == query_validate_name(name).err = ""

\* what an operation of the given kind keeps of its arguments
Kept(kind, args) == [k \in DOMAIN args \cup {"kind"} |-> IF k = "kind" THEN kind ELSE args[k]]

(* C19: an Insert or an Update is constructed if and only if its table     *)
(* name passes identifier validation and its data mapping is non-empty     *)
(* with every key passing identifier validation; a Delete (its id an       *)
(* integer) is constructed if and only if its table name passes; a         *)
(* constructed operation holds its arguments, and construction fails       *)
(* otherwise.                                                              *)
C19_RowOperationShape ==
    /\ last.kind \in {"Insert", "Update"} =>
          ((last.outcome = "ok") <=>
              /\ Passes(last.op.table)
              /\ DOMAIN last.op.data # {}
              /\ \A k \in DOMAIN last.op.data : Passes(k))
    /\ last.kind \in {"Insert", "Update"} /\ Passes(last.op.table) /\ DOMAIN last.op.data = {} =>
          last.outcome = "data cannot be empty"
    /\ last.kind = "Delete" => ((last.outcome = "ok") <=> Passes(last.op.table))
    /\ last.kind \in {"Insert", "Update", "Delete"} /\ last.outcome = "ok" =>
          /\ last.ret = Kept(last.kind, last.op)
          /\ last.kind # "Insert" => last.ret.id \in Int

\* an Update naming a valid and an invalid column was refused
C19_Witness ==
    /\ last.kind = "Update"
    /\ last.op.table = "people"
    /\ DOMAIN last.op.data = {"name", "a b"}
    /\ last.outcome = "Invalid identifier: 'a b'"

-----------------------------------------------------------------------------
(* db/introspection.py: reading the schema back.                           *)

\* the rows of sqlite_master: the tables, the engine's own sqlite_sequence
\* (kept once a table has an AUTOINCREMENT column) and the views
sqlite_master(store) ==
    {[type |-> "table", name |-> t] : t \in DOMAIN store.tables}
    \cup (IF \E t \in DOMAIN store.tables :
                \E i \in DOMAIN store.tables[t].cols : store.tables[t].cols[i].pk
          THEN {[type |-> "table", name |-> "sqlite_sequence"]}
          ELSE {})
    \cup {[type |-> "view", name |-> v] : v \in store.views}

\* PRAGMA table_info("<table_name>") read into ColumnInfo values
_get_columns(conn, table_name) ==
    LET cols == IF HasTable(conn.cur, table_name) THEN conn.cur.tables[table_name].cols ELSE <<>>
    IN  [i \in DOMAIN cols |->
            [name |-> cols[i].name,
             type |-> cols[i].type,
             nullable |-> ~cols[i].notnull,
             primary_key |-> cols[i].pk,
             default_value |-> IF cols[i].dflt = "" THEN NULL ELSE cols[i].dflt]]

get_schema(conn) ==
    LET names == {r.name : r \in {x \in sqlite_master(conn.cur) :
                                     /\ x.type = "table"
                                     \* name NOT LIKE 'sqlite_%': LIKE ignores the case of ASCII letters
                                     /\ ~(Len(x.name) >= 7 /\ lower(SubSeq(x.name, 1, 6)) = "sqlite")
                                     /\ x.name # "_schema_ops"}}
    IN  [t \in names |-> [name |-> t, columns |-> _get_columns(conn, t)]]

-----------------------------------------------------------------------------
(* agent.py, cli.py: the callers.  A tool call is one step: it constructs  *)
(* the operation, opens a connect() scope on the file, executes, leaves    *)
(* the scope and formats its reply.  The text of an exception is the       *)
(* message of the validator that raised it, or the class of the engine's   *)
(* error.                                                                  *)

MaxCalls == 2

\* sqlite3 compiling the sql text of a Query: the compiled statement of a
\* text that is one of the statements recognised, or a syntax error
sqlite3_prepare(sql) ==
    LET text(stmt) ==
            "SELECT " \o stmt.what \o " FROM " \o stmt.table \o " WHERE " \o stmt.col \o " = "
                \o (IF IsPh(stmt.where) THEN ":" \o stmt.where.ph ELSE "'" \o stmt.where.lit \o "'")
        hits == {stmt \in {[verb |-> "SELECT", what |-> "*", table |-> t, col |-> "name", where |-> w] :
                              t \in {"people", "missing"}, w \in {Ph("v"), [lit |-> "a"]}} :
                    text(stmt) = strip(sql)}
    IN  IF hits = {} THEN Invalid("OperationalError") ELSE Valid(CHOOSE stmt \in hits : TRUE)

\* ops/query.py execute of a Query whose sql is text: conn.execute(op.sql,
\* op.params) compiles the text, binds the named parameters and runs it
execute_text(conn, op, n) ==
    LET stmt == sqlite3_prepare(op.sql)
    IN  IF stmt.err # "" THEN Outcome(stmt.err, conn, <<>>, <<op.sql>>)
        ELSE IF IsPh(stmt.value.where) /\ stmt.value.where.ph \notin DOMAIN op.params
        THEN Outcome("ProgrammingError", conn, <<>>, <<op.sql>>)
        ELSE _execute_query(conn, [op EXCEPT !.sql = stmt.value], n)

\* str(row) of a result row
str_row(row) ==
    LET keys == Keys(row[2])
    IN  "(" \o join(", ", <<ToString(row[1])>>
                          \o [i \in DOMAIN keys |->
                                IF row[2][keys[i]] = NULL THEN "None" ELSE repr(row[2][keys[i]])])
            \o ")"

\* what a call of a tool or a command did: its reply, the file afterwards,
\* the operation value it constructed (none: <<>>), the connect() scopes it
\* opened, the statements it issued and what execute returned to it
Did(reply, store, op, connects, sql, ret) ==
    [reply |-> reply, disk |-> store, op |-> op, connects |-> connects, sql |-> sql, ret |-> ret]

\* the exception that leaves the with block, if any
Raised(exc) == IF exc = "" THEN NoExc ELSE exc

\* with db.connect() as conn: ensure_schema_ops(conn); schema_execute(db, conn, op)
ensure_and_execute(store, op, n) ==
    CHOOSE out \in
        {IF made.err # ""
         THEN [exc |-> made.err, ret |-> "None", disk |-> Leave(made.conn, Raised(made.err)).disk, sql |-> <<EnsureSQL>>]
         ELSE CHOOSE o \in {[exc |-> x.exc, ret |-> x.ret, disk |-> Leave(x.conn, Raised(x.exc)).disk,
                              sql |-> <<EnsureSQL>> \o x.sql] :
                                x \in {schema_execute(made.conn, op, n)}} : TRUE :
            made \in {ensure_schema_ops(Conn(store, store, FALSE))}} : TRUE

\* Variant: a statement that raised is issued once more before the scope is left.
connect_and_execute_retry(store, op, n) ==
    CHOOSE out \in
        {[exc |-> x.exc, ret |-> x.ret, disk |-> Leave(x.conn, Raised(x.exc)).disk,
          sql |-> IF x.exc = "" THEN x.sql ELSE x.sql \o <<x.sql[Len(x.sql)]>>] :
            x \in {IF op.kind = "Query" THEN execute_text(Conn(store, store, FALSE), op, n)
                   ELSE query_execute(Conn(store, store, FALSE), op, n)}} : TRUE

\* with db.connect() as conn: query_execute(conn, op)
connect_and_execute(store, op, n) ==
    CHOOSE out \in
        {[exc |-> x.exc, ret |-> x.ret, disk |-> Leave(x.conn, Raised(x.exc)).disk, sql |-> x.sql] :
            x \in {IF op.kind = "Query" THEN execute_text(Conn(store, store, FALSE), op, n)
                   ELSE query_execute(Conn(store, store, FALSE), op, n)}} : TRUE

\* create_table that opens the scope and ensures the ledger before it
\* constructs the operation
create_table_connect_first(store, table, columns, n) ==
    LET made == ensure_schema_ops(Conn(store, store, FALSE))
        defs == [i \in DOMAIN columns |->
                    IF "name" \notin DOMAIN columns[i] THEN Invalid("'name'")
                    ELSE IF "type" \notin DOMAIN columns[i] THEN Invalid("'type'")
                    ELSE ColumnDef_init(columns[i].name, columns[i].type,
                            IF "nullable" \in DOMAIN columns[i] THEN columns[i].nullable ELSE TRUE)]
        failed == {i \in DOMAIN defs : defs[i].err # ""}
        op == CreateTable(table, [i \in DOMAIN defs |-> defs[i].value])
        names == [i \in DOMAIN columns |-> columns[i].name]
    IN  IF failed # {}
        THEN Did("Error creating table: " \o defs[CHOOSE i \in failed : \A j \in failed : i <= j].err,
                 Leave(made.conn, "ValueError").disk, <<>>, 1, <<EnsureSQL>>, <<>>)
        ELSE IF op.err # ""
        THEN Did("Error creating table: " \o op.err,
                 Leave(made.conn, "ValueError").disk, <<>>, 1, <<EnsureSQL>>, <<>>)
        ELSE CHOOSE out \in
                {IF x.exc # ""
                 THEN Did("Error creating table: " \o x.exc, x.disk, <<op.value>>, 1, x.sql, x.ret)
                 ELSE Did("Success: Created table '" \o table \o "' with columns: " \o join(", ", names),
                          x.disk, <<op.value>>, 1, x.sql, x.ret) :
                    x \in {ensure_and_execute(store, op.value, n)}} : TRUE

\* agent.py create_table
create_table(store, table, columns, n) ==
    LET defs == [i \in DOMAIN columns |->
                    IF "name" \notin DOMAIN columns[i] THEN Invalid("'name'")
                    ELSE IF "type" \notin DOMAIN columns[i] THEN Invalid("'type'")
                    ELSE ColumnDef_init(columns[i].name, columns[i].type,
                            IF "nullable" \in DOMAIN columns[i] THEN columns[i].nullable ELSE TRUE)]
        failed == {i \in DOMAIN defs : defs[i].err # ""}
        op == CreateTable(table, [i \in DOMAIN defs |-> defs[i].value])
        names == [i \in DOMAIN columns |-> columns[i].name]
    IN  IF failed # {}
        THEN Did("Error creating table: " \o defs[CHOOSE i \in failed : \A j \in failed : i <= j].err,
                 store, <<>>, 0, <<>>, <<>>)
        ELSE IF op.err # ""
        THEN Did("Error creating table: " \o op.err, store, <<>>, 0, <<>>, <<>>)
        ELSE CHOOSE out \in
                {IF x.exc # ""
                 THEN Did("Error creating table: " \o x.exc, x.disk, <<op.value>>, 1, x.sql, x.ret)
                 ELSE Did("Success: Created table '" \o table \o "' with columns: " \o join(", ", names),
                          x.disk, <<op.value>>, 1, x.sql, x.ret) :
                    x \in {ensure_and_execute(store, op.value, n)}} : TRUE

\* agent.py add_column
add_column(store, table, column, col_type, nullable, n) ==
    LET op == AddColumn(table, column, col_type, nullable)
    IN  IF op.err # "" THEN Did("Error adding column: " \o op.err, store, <<>>, 0, <<>>, <<>>)
        ELSE CHOOSE out \in
                {IF x.exc # ""
                 THEN Did("Error adding column: " \o x.exc, x.disk, <<op.value>>, 1, x.sql, x.ret)
                 ELSE Did("Success: Added column '" \o column \o "' to table '" \o table \o "'",
                          x.disk, <<op.value>>, 1, x.sql, x.ret) :
                    x \in {ensure_and_execute(store, op.value, n)}} : TRUE

\* agent.py query with an empty result reported as an error
query_empty_is_error(store, sql, params, n) ==
    LET op == Query([sql |-> sql, params |-> params])
    IN  IF op.err # "" THEN Did("Error executing query: " \o op.err, store, <<>>, 0, <<>>, <<>>)
        ELSE CHOOSE out \in
                {IF x.exc # ""
                 THEN Did("Error executing query: " \o x.exc, x.disk, <<op.value>>, 1, x.sql, x.ret)
                 ELSE IF x.ret = <<>>
                 THEN Did("Error executing query: no rows", x.disk, <<op.value>>, 1, x.sql, x.ret)
                 ELSE Did("Results (" \o ToString(Len(x.ret)) \o " rows):\n"
                              \o join("\n", [i \in DOMAIN x.ret |-> str_row(x.ret[i])]),
                          x.disk, <<op.value>>, 1, x.sql, x.ret) :
                    x \in {connect_and_execute(store, op.value, n)}} : TRUE

\* agent.py query (params or {}: None given is the empty mapping)
query(store, sql, params, n) ==
    LET op == Query([sql |-> sql, params |-> params])
    IN  IF op.err # "" THEN Did("Error executing query: " \o op.err, store, <<>>, 0, <<>>, <<>>)
        ELSE CHOOSE out \in
                {IF x.exc # ""
                 THEN Did("Error executing query: " \o x.exc, x.disk, <<op.value>>, 1, x.sql, x.ret)
                 ELSE IF x.ret = <<>>
                 THEN Did("No results found", x.disk, <<op.value>>, 1, x.sql, x.ret)
                 ELSE Did("Results (" \o ToString(Len(x.ret)) \o " rows):\n"
                              \o join("\n", [i \in DOMAIN x.ret |-> str_row(x.ret[i])]),
                          x.disk, <<op.value>>, 1, x.sql, x.ret) :
                    x \in {connect_and_execute(store, op.value, n)}} : TRUE

\* agent.py insert
insert(store, table, data, n) ==
    LET op == Insert(table, data)
    IN  IF op.err # "" THEN Did("Error inserting row: " \o op.err, store, <<>>, 0, <<>>, <<>>)
        ELSE CHOOSE out \in
                {IF x.exc # ""
                 THEN Did("Error inserting row: " \o x.exc, x.disk, <<op.value>>, 1, x.sql, x.ret)
                 ELSE Did("Success: Inserted row with id " \o ToString(x.ret) \o " into '" \o table \o "'",
                          x.disk, <<op.value>>, 1, x.sql, x.ret) :
                    x \in {connect_and_execute(store, op.value, n)}} : TRUE

\* agent.py update
update(store, table, row_id, data, n) ==
    LET op == Update(table, row_id, data)
    IN  IF op.err # "" THEN Did("Error updating row: " \o op.err, store, <<>>, 0, <<>>, <<>>)
        ELSE CHOOSE out \in
                {IF x.exc # ""
                 THEN Did("Error updating row: " \o x.exc, x.disk, <<op.value>>, 1, x.sql, x.ret)
                 ELSE Did("Success: Updated row " \o ToString(row_id) \o " in '" \o table \o "'",
                          x.disk, <<op.value>>, 1, x.sql, x.ret) :
                    x \in {connect_and_execute(store, op.value, n)}} : TRUE

\* agent.py delete
delete(store, table, row_id, n) ==
    LET op == Delete(table, row_id)
    IN  IF op.err # "" THEN Did("Error deleting row: " \o op.err, store, <<>>, 0, <<>>, <<>>)
        ELSE CHOOSE out \in
                {IF x.exc # ""
                 THEN Did("Error deleting row: " \o x.exc, x.disk, <<op.value>>, 1, x.sql, x.ret)
                 ELSE Did("Success: Deleted row " \o ToString(row_id) \o " from '" \o table \o "'",
                          x.disk, <<op.value>>, 1, x.sql, x.ret) :
                    x \in {connect_and_execute(store, op.value, n)}} : TRUE

\* cli.py query: what it prints (reply), and its exit status
cli_query(store, sql, n) ==
    LET op == Query([sql |-> sql, params |-> NoParams])
        Ended(did, status, err) ==
            [reply |-> did.reply, disk |-> did.disk, op |-> did.op, connects |-> did.connects,
             sql |-> did.sql, ret |-> did.ret, status |-> status, err |-> err]
    IN  IF op.err # "" THEN Ended(Did("", store, <<>>, 0, <<>>, <<>>), 1, "Error: " \o op.err)
        ELSE CHOOSE out \in
                {IF x.exc # ""
                 THEN Ended(Did("", x.disk, <<op.value>>, 1, x.sql, x.ret), 1, "Error: " \o x.exc)
                 ELSE IF x.ret = <<>>
                 THEN Ended(Did("No results", x.disk, <<op.value>>, 1, x.sql, x.ret), 0, "")
                 ELSE Ended(Did(join("\n", [i \in DOMAIN x.ret |-> str_row(x.ret[i])]),
                               x.disk, <<op.value>>, 1, x.sql, x.ret), 0, "") :
                    x \in {connect_and_execute(store, op.value, n)}} : TRUE

\* agent.py build_dynamic_system_prompt: the schema it reads
read_schema(store) ==
    CHOOSE out \in
        {[reply |-> "", disk |-> Leave(made.conn, Raised(made.err)).disk, op |-> <<>>, connects |-> 1,
          sql |-> <<EnsureSQL>>, ret |-> <<>>, schema |-> get_schema(made.conn)] :
            made \in {ensure_schema_ops(Conn(store, store, FALSE))}} : TRUE

\* the arguments the model passes to the tools
ToolTableArgs == {"people", "sqlitedb", "a b"}

ToolDataArgs ==
    {[k \in {} |-> "a"], [k \in {"name"} |-> "a"], [k \in {"email"} |-> "a"], [k \in {"a b"} |-> "a"]}

InitTools ==
    \* a new file, a file with a table, a file in which an earlier session also created a view
    /\ disk \in {EmptyStore, SeededStore, [SeededStore EXCEPT !.views = {"active_people"}]}
    /\ cur = disk
    /\ scope = "closed"
    /\ inTx = FALSE
    /\ last = NoCall
    /\ raised = NoExc
    /\ clock = 0
    /\ files = NoFiles
    /\ log = {}
    /\ pc = Idle

\* the call returns its reply; the scope it opened, if any, is closed again
Replied(kind, args, did) ==
    /\ disk' = did.disk
    /\ cur' = did.disk
    /\ last' = [kind |-> kind,
                outcome |-> IF startswith(did.reply, "Error") THEN "error" ELSE "ok",
                op |-> args,
                ret |-> did]
    /\ clock' = clock + 1
    /\ UNCHANGED <<scope, inTx, raised, files, log, pc>>

ToolCreateTable ==
    /\ scope = "closed"
    /\ clock < MaxCalls
    /\ \E table \in ToolTableArgs :
       \E columns \in
            {<<>>,
             <<[name |-> "name", type |-> "text", nullable |-> FALSE]>>,
             <<[name |-> "name", type |-> "text", nullable |-> FALSE], [name |-> "email", type |-> "text"]>>,
             <<[name |-> "name", type |-> "text"], [name |-> "name", type |-> "text"]>>,
             <<[name |-> "name", type |-> "text"], [name |-> "ID", type |-> "integer"]>>,
             <<[name |-> "name", type |-> "blob"]>>,
             <<[name |-> "bad name", type |-> "text"]>>,
             <<[type |-> "text"]>>} :
       \E did \in {create_table(disk, table, columns, clock + 1)} :
          Replied("create_table", [table |-> table, columns |-> columns], did)

ToolAddColumn ==
    /\ scope = "closed"
    /\ clock < MaxCalls
    /\ \E table \in {"people", "a b"}, column \in {"email", "bad col"}, col_type \in {"text", "blob"}, nullable \in BOOLEAN :
       \E did \in {add_column(disk, table, column, col_type, nullable, clock + 1)} :
          Replied("add_column",
                  [table |-> table, column |-> column, col_type |-> col_type, nullable |-> nullable], did)

ToolQuery ==
    /\ scope = "closed"
    /\ clock < MaxCalls
    /\ \E a \in
            {<<"SELECT * FROM people WHERE name = :v", [k \in {"v"} |-> "a"]>>,
             <<"SELECT * FROM people WHERE name = :v", [k \in {"v"} |-> "b"]>>,
             <<"SELECT * FROM people WHERE name = :v", NoParams>>,
             <<" SELECT * FROM people WHERE name = 'a'\n", NoParams>>,
             <<"SELECT * FROM missing WHERE name = 'a'", NoParams>>,
             <<"SELECT FROM", NoParams>>,
             <<"DROP TABLE people", NoParams>>,
             <<"DELETE FROM people WHERE id = 1", NoParams>>,
             <<"", NoParams>>} :
       \E did \in {query(disk, a[1], a[2], clock + 1)} :
          Replied("query", [sql |-> a[1], params |-> a[2]], did)

ToolInsert ==
    /\ scope = "closed"
    /\ clock < MaxCalls
    /\ \E table \in ToolTableArgs, data \in ToolDataArgs :
       \E did \in {insert(disk, table, data, clock + 1)} :
          Replied("insert", [table |-> table, data |-> data], did)

ToolUpdate ==
    /\ scope = "closed"
    /\ clock < MaxCalls
    /\ \E table \in {"people", "a b"}, row_id \in {1}, data \in ToolDataArgs :
       \E did \in {update(disk, table, row_id, data, clock + 1)} :
          Replied("update", [table |-> table, row_id |-> row_id, data |-> data], did)

ToolDelete ==
    /\ scope = "closed"
    /\ clock < MaxCalls
    /\ \E table \in {"people", "a b", ""}, row_id \in {1, 2} :
       \E did \in {delete(disk, table, row_id, clock + 1)} :
          Replied("delete", [table |-> table, row_id |-> row_id], did)

CliQuery ==
    /\ scope = "closed"
    /\ clock < MaxCalls
    /\ \E sql \in
            {"SELECT * FROM people WHERE name = 'a'", "SELECT * FROM missing WHERE name = 'a'",
             "SELECT * FROM people WHERE name = :v", "SELEKT * FROM nowhere", "SELECT FROM",
             "DROP TABLE people"} :
       \E did \in {cli_query(disk, sql, clock + 1)} :
          Replied("mx query", [sql |-> sql], did)

SystemPrompt ==
    /\ scope = "closed"
    /\ clock < MaxCalls
    /\ \E did \in {read_schema(disk)} : Replied("get_schema", <<>>, did)

NextTools ==
    \/ ToolCreateTable
    \/ ToolAddColumn
    \/ ToolQuery
    \/ ToolInsert
    \/ ToolUpdate
    \/ ToolDelete
    \/ CliQuery
    \/ SystemPrompt

SpecTools == InitTools /\ [][NextTools]_vars

-----------------------------------------------------------------------------
\* the schema get_schema reads from the file as it is
SchemaNow == get_schema(Conn(disk, disk, FALSE))

\* the nullable flag a column of a create_table call declares
DeclaredNullable(col) == IF "nullable" \in DOMAIN col THEN col.nullable ELSE TRUE

(* C15: round trip: after a valid CreateTable was executed successfully,   *)
(* get_schema on the same store has an entry for op.table whose columns    *)
(* are the implicit id first with primary_key true, then exactly the       *)
(* declared columns in declared order, each with its declared nullable     *)
(* flag.                                                                   *)
C15_CreateTableRoundTrip ==
    last.kind = "create_table" /\ last.outcome = "ok" =>
        \A schema \in {SchemaNow} :
            /\ last.op.table \in DOMAIN schema
            /\ LET declared == last.op.columns
                   cols == schema[last.op.table].columns
               IN  /\ Len(cols) = Len(declared) + 1
                   /\ cols[1].name = "id"
                   /\ cols[1].primary_key
                   /\ \A i \in DOMAIN declared :
                         /\ cols[i + 1].name = declared[i].name
                         /\ cols[i + 1].nullable = DeclaredNullable(declared[i])
                         /\ ~cols[i + 1].primary_key

\* names with the engine's reserved prefix
Reserved(name) == StartsWith(name, "sqlite_")

(* C16: get_schema returns exactly the user-visible tables: its keys are   *)
(* the tables of the store minus those with the reserved prefix 'sqlite_'  *)
(* and minus _schema_ops, and no view is among them; on an empty store it  *)
(* returns the empty mapping.                                              *)
C16_GetSchemaUserTables ==
    last.kind = "get_schema" =>
        /\ DOMAIN last.ret.schema = {t \in DOMAIN disk.tables : ~Reserved(t) /\ t # "_schema_ops"}
        /\ DOMAIN last.ret.schema \cap disk.views = {}
        /\ DOMAIN disk.tables \subseteq {"_schema_ops"} => DOMAIN last.ret.schema = {}

\* the arguments of a tool call fail identifier or shape validation
BadColumn(col) ==
    \/ "name" \notin DOMAIN col
    \/ "type" \notin DOMAIN col
    \/ schema_validate_name(col.name, "column").err # ""
    \/ col.type \notin {"text", "integer", "real", "date", "datetime", "boolean"}
    \/ col.name \in IdNames

BadData(data) == DOMAIN data = {} \/ \E k \in DOMAIN data : ~Passes(k)

Rejected(kind, args) ==
    CASE kind = "create_table" ->
            \/ schema_validate_name(args.table, "table").err # ""
            \/ args.columns = <<>>
            \/ \E i \in DOMAIN args.columns : BadColumn(args.columns[i])
      [] kind = "add_column" ->
            \/ schema_validate_name(args.table, "table").err # ""
            \/ schema_validate_name(args.column, "column").err # ""
            \/ args.col_type \notin {"text", "integer", "real", "date", "datetime", "boolean"}
      [] kind = "query" -> ~BeginsWithSelect(args.sql)
      [] kind = "insert" -> ~Passes(args.table) \/ BadData(args.data)
      [] kind = "update" -> ~Passes(args.table) \/ BadData(args.data)
      [] kind = "delete" -> ~Passes(args.table)
      [] OTHER -> FALSE

(* C17: validation strictly precedes I/O: a tool call (create_table,       *)
(* add_column, query, insert, update, delete) whose arguments fail         *)
(* identifier or shape validation constructs no operation value, opens no  *)
(* connection scope and executes no statement, and the store is the same   *)
(* before and after the call; the tool replies with an error.              *)
C17_ValidationBeforeIO ==
    [][Rejected(last'.kind, last'.op) =>
        /\ last'.ret.op = <<>>
        /\ last'.ret.connects = 0
        /\ last'.ret.sql = <<>>
        /\ disk' = disk
        /\ cur' = cur
        /\ scope' = "closed"
        /\ last'.outcome = "error"]_vars

\* create_table was refused for its column list on a file that has no ledger yet
C17_Witness ==
    /\ last.kind = "create_table"
    /\ last.op.table = "people"
    /\ Len(last.op.columns) = 2
    /\ last.op.columns[2].name = "ID"
    /\ last.ret.connects = 0
    /\ last.outcome = "error"
    /\ disk = EmptyStore

\* the rows of people a query of the recognised form selects
Selected(sql, params) ==
    LET text == strip(sql)
        named == text = "SELECT * FROM people WHERE name = :v"
        value == IF named THEN params["v"] ELSE "a"
    IN  {i \in DOMAIN RowsOf(disk, "people") : RowsOf(disk, "people")[i]["name"] = value}

\* a select of people by name that can be executed
Selects(kind, args) ==
    /\ kind \in {"query", "mx query"}
    /\ HasTable(disk, "people")
    /\ \/ strip(args.sql) = "SELECT * FROM people WHERE name = 'a'"
       \/ /\ strip(args.sql) = "SELECT * FROM people WHERE name = :v"
          /\ kind = "query"
          /\ "v" \in DOMAIN args.params

(* C20: executing a Select whose result set is empty returns an empty      *)
(* sequence and raises no error, and its callers report a normal           *)
(* no-results outcome: the agent query tool returns a non-error string     *)
(* ('No results found') and the CLI query command prints 'No results' and  *)
(* exits with status 0.                                                    *)
C20_EmptyResultIsNotAnError ==
    Selects(last.kind, last.op)
        /\ Selected(last.op.sql, IF last.kind = "query" THEN last.op.params ELSE NoParams) = {} =>
            /\ last.ret.ret = <<>>
            /\ last.outcome = "ok"
            /\ last.kind = "query" => last.ret.reply = "No results found"
            /\ last.kind = "mx query" =>
                  /\ last.ret.reply = "No results"
                  /\ last.ret.err = ""
                  /\ last.ret.status = 0

\* the query tool found no row named b in a table that holds a row named a
C20_Witness ==
    /\ last.kind = "query"
    /\ last.op.sql = "SELECT * FROM people WHERE name = :v"
    /\ "v" \in DOMAIN last.op.params
    /\ last.op.params["v"] = "b"
    /\ \E i \in DOMAIN RowsOf(disk, "people") : RowsOf(disk, "people")[i]["name"] = "a"
    /\ last.ret.reply = "No results found"

----------------------------------------------------------------------------
(* C27: ensure_schema_ops is idempotent: a call never raises, the store    *)
(* holds the table _schema_ops afterwards, a call on a store that has the  *)
(* table already changes nothing at all, and a call that creates it        *)
(* creates it empty and leaves every other table as it was.                *)
C27_EnsureSchemaOpsIdempotent ==
    [][ /\ last'.kind = "ensure_schema_ops" => last'.outcome = "ok"
        /\ Acted("ensure_schema_ops") =>
              /\ HasTable(cur', LEDGER)
              /\ HasTable(cur, LEDGER) => (cur' = cur /\ disk' = disk /\ inTx' = inTx)
              /\ ~HasTable(cur, LEDGER) =>
                    /\ RowsOf(cur', LEDGER) = EmptyRows
                    /\ DOMAIN cur'.tables = DOMAIN cur.tables \cup {LEDGER}
                    /\ \A u \in DOMAIN cur.tables : cur'.tables[u] = cur.tables[u]
      ]_vars

\* ensure_schema_ops has returned in a scope whose ledger, made by an
\* earlier call, holds audit rows, of which one was added in this scope.
C27_Witness ==
    /\ scope = "open"
    /\ last.kind = "ensure_schema_ops"
    /\ last.outcome = "ok"
    /\ DOMAIN RowsOf(disk, LEDGER) # {}
    /\ DOMAIN RowsOf(cur, LEDGER) # DOMAIN RowsOf(disk, LEDGER)

----------------------------------------------------------------------------
----------------------------------------------------------------------------
(* C29: row ids of a table created through CreateTable are never reused:   *)
(* a successful Insert returns an id greater than the id of every row the  *)
(* table holds (each of them returned by an earlier Insert) and greater    *)
(* than the id the Insert before it returned for the table.                *)
C29_RowIdsNeverReused ==
    [][ (Acted("Insert") /\ last'.op.table \in UserTables) =>
          /\ \A i \in DOMAIN cur.tables[last'.op.table].rows : last'.ret > i
          /\ (last.kind = "Insert" /\ last.outcome = "ok" /\ last.op.table = last'.op.table) =>
                last'.ret > last.ret
      ]_vars

----------------------------------------------------------------------------
\* The table has exactly one column named id, the first, the primary key.
IdFirst(tbl) ==
    /\ Len(tbl.cols) >= 1
    /\ tbl.cols[1].name = "id"
    /\ tbl.cols[1].pk
    /\ \A i \in 2..Len(tbl.cols) : tbl.cols[i].name \notin {"id", "ID", "Id", "iD"} /\ ~tbl.cols[i].pk

----------------------------------------------------------------------------
\* The step is a call of one of the six agent tools.
ToolCall ==
    /\ clock' = clock + 1
    /\ last'.kind \in {"create_table", "add_column", "query", "insert", "update", "delete"}

\* What the with block of the tool does with an operation on a store.
InScope(kind, store, op, n) ==
    IF kind \in {"create_table", "add_column"} THEN ensure_and_execute(store, op, n)
    ELSE connect_and_execute(store, op, n)

(* C21: a call of an agent tool returns a string.  The call fails when no  *)
(* operation could be constructed or when the with block raised, and then, *)
(* and only then, the reply begins with 'Error'; in every case the call    *)
(* has opened at most one scope (none when construction failed), has       *)
(* issued no statement twice, and has left the scope closed; after a       *)
(* failure the file holds every table it held, unchanged, and nothing new  *)
(* but the ledger that ensure_schema_ops created before the failure.       *)
C21_ToolsReturnErrors ==
    [][ ToolCall =>
          LET did == last'.ret
              failed == \/ did.op = <<>>
                        \/ InScope(last'.kind, disk, did.op[1], clock').exc # ""
          IN  /\ did.reply \in STRING
              /\ failed <=> startswith(did.reply, "Error")
              /\ last'.outcome = (IF failed THEN "error" ELSE "ok")
              /\ did.connects = (IF did.op = <<>> THEN 0 ELSE 1)
              /\ \A i, j \in DOMAIN did.sql : i # j => did.sql[i] # did.sql[j]
              /\ scope' = "closed" /\ ~inTx' /\ cur' = disk' /\ disk' = did.disk
              /\ failed =>
                    /\ \A t \in DOMAIN disk.tables : HasTable(disk', t) /\ disk'.tables[t] = disk.tables[t]
                    /\ DOMAIN disk'.tables \ DOMAIN disk.tables \subseteq {LEDGER}
      ]_vars

\* The update tool, asked for a row the table does not hold, has replied
\* with the error of the existence check, after one scope and one SELECT.
C21_Witness ==
    /\ last.kind = "update"
    /\ last.outcome = "error"
    /\ last.ret.reply = "Error updating row: Row with id 1 not found in table people"
    /\ last.ret.connects = 1
    /\ Len(last.ret.sql) = 1
    /\ scope = "closed"

-----------------------------------------------------------------------------
(* cache.py: the optional cache of LLM replies.  A cache directory is a    *)
(* path of files whose content is the entries stored (key |-> value) and   *)
(* the number of handles open on it.  The wrapped function is given by     *)
(* what it does when it is invoked: it returns a value or raises.          *)

\* hashlib.sha256(prompt.encode("utf-8")).hexdigest() of the prompts passed
sha256_hexdigest(prompt) ==
    CASE prompt = "prompt A" -> "ba60033b03ca18acadf7f25a4bb9fb0f35d30809902384396e9b087f395328c3"
      [] prompt = "prompt B" -> "dbf0e7ee05a7ea4d98a0c25cf2b31adda40afd92a9576439a3a63426bb94209c"
      [] prompt = "" -> "e3b0c44298fc1c149afbf4c8996fb92427ae41e4649b934ca495991b7852b855"

\* get_cache: None (<<>>), or a Cache on the directory named by
\* MEMEX_CACHE_DIR (<<dir>>), which Cache(dir) creates when it is missing
get_cache(environ, fs) ==
    LET cache_dir == IF "MEMEX_CACHE_DIR" \in DOMAIN environ THEN environ["MEMEX_CACHE_DIR"] ELSE ""
        entries == IF cache_dir \in DOMAIN fs THEN fs[cache_dir].entries ELSE [k \in {} |-> ""]
        handles == IF cache_dir \in DOMAIN fs THEN fs[cache_dir].handles ELSE 0
    IN  IF cache_dir = "" THEN [cache |-> <<>>, files |-> fs]
        ELSE [cache |-> <<cache_dir>>,
              files |-> [p \in DOMAIN fs \cup {cache_dir} |->
                            IF p = cache_dir THEN [entries |-> entries, handles |-> handles + 1]
                            ELSE fs[p]]]

\* Variant: the key is the hash of the prompt alone.
cached_llm_prompt_key(environ, fs, func, prompt, schema_hash) ==
    LET got == get_cache(environ, fs)
        dir == got.cache[1]
        cache_key == sha256_hexdigest(prompt)
        cache == got.files[dir].entries
        closed(es) == [got.files EXCEPT ![dir] = [entries |-> es, handles |-> @.handles - 1]]
    IN  IF got.cache = <<>>
        THEN [exc |-> func.exc, ret |-> func.ret, invoked |-> TRUE, files |-> fs]
        ELSE IF cache_key \in DOMAIN cache
        THEN [exc |-> "", ret |-> cache[cache_key], invoked |-> FALSE, files |-> closed(cache)]
        ELSE IF func.exc # ""
        THEN [exc |-> func.exc, ret |-> "", invoked |-> TRUE, files |-> closed(cache)]
        ELSE [exc |-> "", ret |-> func.ret, invoked |-> TRUE,
              files |-> closed([k \in DOMAIN cache \cup {cache_key} |->
                                   IF k = cache_key THEN func.ret ELSE cache[k]])]

\* Variant: no with block; the cache is closed on the paths that return.
cached_llm_unclosed(environ, fs, func, prompt, schema_hash) ==
    LET got == get_cache(environ, fs)
        dir == got.cache[1]
        cache_key == schema_hash \o ":" \o sha256_hexdigest(prompt)
        cache == got.files[dir].entries
        closed(es) == [got.files EXCEPT ![dir] = [entries |-> es, handles |-> @.handles - 1]]
    IN  IF got.cache = <<>>
        THEN [exc |-> func.exc, ret |-> func.ret, invoked |-> TRUE, files |-> fs]
        ELSE IF cache_key \in DOMAIN cache
        THEN [exc |-> "", ret |-> cache[cache_key], invoked |-> FALSE, files |-> closed(cache)]
        ELSE IF func.exc # ""
        THEN [exc |-> func.exc, ret |-> "", invoked |-> TRUE, files |-> got.files]
        ELSE [exc |-> "", ret |-> func.ret, invoked |-> TRUE,
              files |-> closed([k \in DOMAIN cache \cup {cache_key} |->
                                   IF k = cache_key THEN func.ret ELSE cache[k]])]

\* cached_llm(func)(prompt, schema_hash): the exception that reaches the
\* caller ("" when none), the value returned, whether func was invoked, and
\* the files afterwards; leaving the with block closes the cache
cached_llm(environ, fs, func, prompt, schema_hash) ==
    LET got == get_cache(environ, fs)
        dir == got.cache[1]
        cache_key == schema_hash \o ":" \o sha256_hexdigest(prompt)
        cache == got.files[dir].entries
        closed(es) == [got.files EXCEPT ![dir] = [entries |-> es, handles |-> @.handles - 1]]
    IN  IF got.cache = <<>>
        THEN [exc |-> func.exc, ret |-> func.ret, invoked |-> TRUE, files |-> fs]
        ELSE IF cache_key \in DOMAIN cache
        THEN [exc |-> "", ret |-> cache[cache_key], invoked |-> FALSE, files |-> closed(cache)]
        ELSE IF func.exc # ""
        THEN [exc |-> func.exc, ret |-> "", invoked |-> TRUE, files |-> closed(cache)]
        ELSE [exc |-> "", ret |-> func.ret, invoked |-> TRUE,
              files |-> closed([k \in DOMAIN cache \cup {cache_key} |->
                                   IF k = cache_key THEN func.ret ELSE cache[k]])]

\* a process starts with no cache directory, or with the one an earlier
\* process left
InitCache ==
    /\ files \in {NoFiles,
                  [p \in {"cache"} |->
                      [entries |-> [k \in {"schema_v1:" \o sha256_hexdigest("prompt A")} |-> "r1"],
                       handles |-> 0]]}
    /\ log = {}
    /\ disk = EmptyStore
    /\ cur = disk
    /\ scope = "closed"
    /\ inTx = FALSE
    /\ last = NoCall
    /\ raised = NoExc
    /\ clock = 0
    /\ pc = Idle

\* One call of the decorated function, under the environment of the moment.
CachedLlm ==
    \E environ \in {[k \in {} |-> ""],
                    [k \in {"MEMEX_CACHE_DIR"} |-> ""],
                    [k \in {"MEMEX_CACHE_DIR"} |-> "cache"]},
       prompt \in {"prompt A", "prompt B"},
       schema_hash \in {"schema_v1", "schema_v2"},
       func \in {[exc |-> "", ret |-> "r1"], [exc |-> "", ret |-> "r2"],
                 [exc |-> "RuntimeError", ret |-> ""]} :
    \E res \in {cached_llm(environ, files, func, prompt, schema_hash)} :
        /\ files' = res.files
        /\ log' = IF res.invoked /\ res.exc = ""
                  THEN log \cup {<<get_cache(environ, files).cache, prompt, schema_hash>>}
                  ELSE log
        /\ raised' = Raised(res.exc)
        /\ last' = [kind |-> "cached_llm",
                    outcome |-> IF res.exc = "" THEN "ok" ELSE res.exc,
                    op |-> [environ |-> environ, prompt |-> prompt, schema_hash |-> schema_hash,
                            func |-> func],
                    ret |-> res]
        /\ UNCHANGED <<disk, cur, scope, inTx, clock, pc>>

SpecCache == InitCache /\ [][CachedLlm]_vars

----------------------------------------------------------------------------
\* The call of the step: its arguments, its environment, what it gave.
CacheSet(environ) == "MEMEX_CACHE_DIR" \in DOMAIN environ /\ environ["MEMEX_CACHE_DIR"] # ""

CacheKey(prompt, schema_hash) == schema_hash \o ":" \o sha256_hexdigest(prompt)

\* The entries of the cache directory the environment names, in the files fs.
EntriesIn(fs, environ) ==
    IF environ["MEMEX_CACHE_DIR"] \in DOMAIN fs THEN fs[environ["MEMEX_CACHE_DIR"]].entries
    ELSE [k \in {} |-> ""]

(* C22: with MEMEX_CACHE_DIR set, a call invokes the wrapped function      *)
(* exactly when the key schema_hash:sha256(prompt) is absent from the      *)
(* cache.  A call that finds the key returns the value stored and leaves   *)
(* the entries as they were; a call whose function returns adds the entry  *)
(* key |-> value and changes no other entry; the function has not returned *)
(* before for the same directory, prompt and schema_hash; and two calls    *)
(* that differ in prompt or schema_hash have different keys.               *)
C22_CachedOncePerKey ==
    [][ CacheSet(last'.op.environ) =>
          LET op == last'.op
              res == last'.ret
              key == CacheKey(op.prompt, op.schema_hash)
              before == EntriesIn(files, op.environ)
              after == EntriesIn(files', op.environ)
          IN  /\ res.invoked <=> key \notin DOMAIN before
              /\ key \in DOMAIN before =>
                    /\ res.exc = ""
                    /\ res.ret = before[key]
                    /\ after = before
              /\ (res.invoked /\ res.exc = "") =>
                    /\ <<<<op.environ["MEMEX_CACHE_DIR"]>>, op.prompt, op.schema_hash>> \notin log
                    /\ res.ret = op.func.ret
                    /\ DOMAIN after = DOMAIN before \cup {key}
                    /\ after[key] = res.ret
              /\ \A k \in DOMAIN before : k \in DOMAIN after /\ after[k] = before[k]
              /\ \A p \in {"prompt A", "prompt B"}, h \in {"schema_v1", "schema_v2"} :
                    (p # op.prompt \/ h # op.schema_hash) => CacheKey(p, h) # key
      ]_vars

\* The function has returned for one prompt under two schema hashes, and
\* the latest call was answered from the cache with the value stored first,
\* not the value the function would return now.
C22_Witness ==
    /\ last.kind = "cached_llm"
    /\ CacheSet(last.op.environ)
    /\ ~last.ret.invoked
    /\ last.op.func.exc = ""
    /\ last.ret.ret # last.op.func.ret
    /\ \E a, b \in log : a[2] = b[2] /\ a[3] # b[3] /\ a[2] = last.op.prompt /\ a[3] = last.op.schema_hash

----------------------------------------------------------------------------
(* C23: when the wrapped function raises, the caller gets the exception,   *)
(* no entry is stored (the entries are as before, so that any call with    *)
(* the same prompt and schema_hash invokes the function again and, when    *)
(* the function returns, stores its value), and no handle is left open on  *)
(* the cache directory, as after every call.  With                         *)
(* MEMEX_CACHE_DIR unset or empty every call invokes the function, returns *)
(* what it returns and leaves the files as they were.                      *)
C23_RaiseStoresNothing ==
    [][ LET op == last'.op
            res == last'.ret
        IN  IF CacheSet(op.environ)
            THEN /\ files'[op.environ["MEMEX_CACHE_DIR"]].handles = 0
                 /\ (res.invoked /\ op.func.exc # "") =>
                       /\ res.exc = op.func.exc
                       /\ raised' = op.func.exc
                       /\ EntriesIn(files', op.environ) = EntriesIn(files, op.environ)
                       /\ CacheKey(op.prompt, op.schema_hash) \notin DOMAIN EntriesIn(files', op.environ)
                       /\ \A f \in {[exc |-> "", ret |-> "r2"], [exc |-> "RuntimeError", ret |-> ""]} :
                             cached_llm(op.environ, files', f, op.prompt, op.schema_hash).invoked
                       /\ cached_llm(op.environ, files', [exc |-> "", ret |-> "r2"], op.prompt, op.schema_hash)
                             .files[op.environ["MEMEX_CACHE_DIR"]].entries[CacheKey(op.prompt, op.schema_hash)] = "r2"
            ELSE /\ res.invoked
                 /\ res.exc = op.func.exc
                 /\ res.ret = op.func.ret
                 /\ files' = files
                 /\ log' = log \/ op.func.exc = ""
      ]_vars

\* The function has raised on a cache that holds other entries: the cache
\* directory is closed and holds no entry for the key of the call.
C23_Witness ==
    /\ last.kind = "cached_llm"
    /\ CacheSet(last.op.environ)
    /\ last.outcome = "RuntimeError"
    /\ raised = "RuntimeError"
    /\ files["cache"].handles = 0
    /\ DOMAIN files["cache"].entries # {}
    /\ CacheKey(last.op.prompt, last.op.schema_hash) \notin DOMAIN files["cache"].entries

-----------------------------------------------------------------------------
(* cli.py: the mx command line.  The files are path |-> directory or       *)
(* regular file; a regular file has a format ("sqlite", "history" or       *)
(* "text") and, when it is a database, the store it holds.                 *)

\* Path.mkdir(parents=True, exist_ok=True)
mkdir(fs, path) ==
    LET made == {path} \cup {SubSeq(path, 1, i - 1) : i \in {j \in 2..Len(path) : SubSeq(path, j, j) = "/"}}
    IN  [p \in DOMAIN fs \cup made |-> IF p \in DOMAIN fs THEN fs[p] ELSE [type |-> "dir"]]

\* a regular file written at path
write(fs, path, format, store) ==
    [p \in DOMAIN fs \cup {path} |->
        IF p = path THEN [type |-> "file", format |-> format, store |-> store] ELSE fs[p]]

\* db/connection.py get_db_path; an environment variable that is unset is ""
get_db_path(environ) ==
    IF environ.MEMEX_HOME # "" THEN environ.MEMEX_HOME \o "/" \o "memex.db"
    ELSE "~" \o "/" \o ".memex" \o "/" \o "memex.db"

_get_history_path(environ) ==
    IF environ.MEMEX_HOME # "" THEN environ.MEMEX_HOME \o "/" \o ".mx_history"
    ELSE "~" \o "/" \o ".memex" \o "/" \o ".mx_history"

_get_memex_home(environ) ==
    IF environ.MEMEX_HOME # "" THEN environ.MEMEX_HOME ELSE "~" \o "/" \o ".memex"

\* The file-system states _archive_memex_data goes through at second now,
\* and the path it returns (none: <<>>)
_archive_memex_data(fs, memex_home, now) ==
    LET db_path == memex_home \o "/" \o "memex.db"
        archive_dir == memex_home \o "/" \o "archive"
        timestamp == "20240101_12000" \o ToString(now)
        archive_path == archive_dir \o "/" \o "memex_" \o timestamp \o ".db"
    IN  IF db_path \notin DOMAIN fs THEN [ret |-> <<>>, trace |-> <<>>]
        ELSE [ret |-> <<archive_path>>,
              trace |-> <<mkdir(fs, archive_dir),
                          write(mkdir(fs, archive_dir), archive_path, fs[db_path].format, fs[db_path].store)>>]

\* Variant: the database is deleted before it is archived.
reset_unlink_first(fs, environ, args) ==
    LET db_path == get_db_path(environ)
        gone == [p \in DOMAIN fs \ {db_path} |-> fs[p]]
    IN  IF db_path \notin DOMAIN fs THEN [trace |-> <<fs>>, exit |-> 0, out |-> "Nothing to reset"]
        ELSE IF ~args.confirm /\ args.stdin # "y"
        THEN [trace |-> <<fs>>, exit |-> IF args.stdin = "" THEN 1 ELSE 0, out |-> "Aborted"]
        ELSE [trace |-> <<fs, gone>>
                          \o (IF args.no_archive THEN <<>>
                              ELSE _archive_memex_data(gone, _get_memex_home(environ), args.now).trace),
              exit |-> 0, out |-> "Reset complete"]

\* mx reset: the file-system states it goes through, its exit status and
\* the last line it prints.  click.confirm reads the answer from stdin: "y"
\* is yes, "n" is no, end of input aborts the command.
reset(fs, environ, args) ==
    LET db_path == get_db_path(environ)
        archived == IF args.no_archive THEN <<>>
                    ELSE _archive_memex_data(fs, _get_memex_home(environ), args.now).trace
        kept == IF archived = <<>> THEN fs ELSE archived[Len(archived)]
        deleted == [p \in DOMAIN kept \ {db_path} |-> kept[p]]
        history_path == _get_history_path(environ)
    IN  IF db_path \notin DOMAIN fs THEN [trace |-> <<fs>>, exit |-> 0, out |-> "Nothing to reset"]
        ELSE IF ~args.confirm /\ args.stdin # "y"
        THEN [trace |-> <<fs>>, exit |-> IF args.stdin = "" THEN 1 ELSE 0, out |-> "Aborted"]
        ELSE [trace |-> <<fs>> \o archived \o <<deleted>>
                          \o (IF history_path \in DOMAIN deleted
                              THEN <<[p \in DOMAIN deleted \ {history_path} |-> deleted[p]]>>
                              ELSE <<>>),
              exit |-> 0, out |-> "Reset complete"]

\* mx chat: without ANTHROPIC_API_KEY it exits with status 1; with it the
\* chat loop creates the directory of the history file, the prompt session
\* appends each line the user types to the history file, and the loop ends
\* at "exit" or at the end of input
chat(fs, environ, args) ==
    LET history_path == _get_history_path(environ)
        made == mkdir(fs, _get_memex_home(environ))
    IN  IF environ.ANTHROPIC_API_KEY = "" THEN [trace |-> <<fs>>, exit |-> 1, out |-> "Error: ANTHROPIC_API_KEY not set."]
        ELSE IF args.stdin = "" THEN [trace |-> <<fs, made>>, exit |-> 0, out |-> "Goodbye."]
        ELSE [trace |-> <<fs, made, write(made, history_path, "history", EmptyStore)>>,
              exit |-> 0, out |-> "Goodbye."]

\* mx query SQL: connect() creates the directory and, when it is not there,
\* the file of the database; a file that is not a database cannot be read
mx_query(fs, environ, args, n) ==
    LET db_path == get_db_path(environ)
        made == mkdir(fs, _get_memex_home(environ))
        opened == IF db_path \in DOMAIN fs THEN made ELSE write(made, db_path, "sqlite", EmptyStore)
    IN  IF opened[db_path].format # "sqlite"
        THEN [trace |-> <<fs, opened>>, exit |-> 1, out |-> "Error: DatabaseError"]
        ELSE CHOOSE res \in
                {[trace |-> <<fs, opened, write(opened, db_path, "sqlite", did.disk)>>,
                  exit |-> did.status,
                  out |-> IF did.status = 0 THEN did.reply ELSE did.err] :
                    did \in {cli_query(opened[db_path].store, args.sql, n)}} : TRUE

\* mx status
status(fs, environ, args) ==
    LET db_path == get_db_path(environ)
    IN  IF db_path \notin DOMAIN fs
        THEN [trace |-> <<fs>>, exit |-> 0, out |-> "Database not initialized (no tables yet)"]
        ELSE IF fs[db_path].format # "sqlite"
        THEN [trace |-> <<fs>>, exit |-> 1, out |-> "Error: DatabaseError"]
        ELSE CHOOSE res \in
                {[trace |-> <<fs, write(fs, db_path, "sqlite", did.disk)>>,
                  exit |-> 0,
                  out |-> IF DOMAIN did.schema = {} THEN "No user tables found" ELSE "Tables:"] :
                    did \in {read_schema(fs[db_path].store)}} : TRUE

\* The n-th run of mx: the group callback cli(), the subcommand, and the
\* result callback cleanup(), which click calls with the value the
\* subcommand returns, and so only when it returns.  tempfile.mkdtemp
\* makes a directory that did not exist.
cli(fs, environ, args, n) ==
    LET temp_dir == "tmp" \o "/" \o "memex_sandbox_" \o ToString(n)
        entered == IF args.sandbox THEN <<mkdir(fs, temp_dir)>> ELSE <<>>
        env == IF args.sandbox THEN [environ EXCEPT !.MEMEX_HOME = temp_dir] ELSE environ
        start == IF args.sandbox THEN entered[1] ELSE fs
        ran == CASE args.cmd \in {"", "chat"} -> chat(start, env, args)
                 [] args.cmd = "query" -> mx_query(start, env, args, n)
                 [] args.cmd = "status" -> status(start, env, args)
                 [] args.cmd = "reset" -> reset(start, env, args)
        done == ran.trace[Len(ran.trace)]
        cleanup == IF ran.exit = 0 /\ args.sandbox /\ temp_dir \in DOMAIN done
                   THEN <<[p \in {q \in DOMAIN done : q # temp_dir /\ ~StartsWith(q, temp_dir \o "/")} |-> done[p]]>>
                   ELSE <<>>
    IN  [trace |-> entered \o ran.trace \o cleanup,
         exit |-> ran.exit,
         out |-> ran.out,
         sandbox_dir |-> IF args.sandbox THEN <<temp_dir>> ELSE <<>>]

\* Before the first run: no memex home yet; or, under ~/.memex or under
\* home, the database of an earlier session with the history of its chat;
\* or a memex.db under home that is not a database.
InitCli ==
    /\ files \in
          {mkdir(mkdir(NoFiles, "~"), "tmp"),
           write(write(mkdir(mkdir(NoFiles, "~/.memex"), "tmp"), "~/.memex/memex.db", "sqlite", SeededStore),
                 "~/.memex/.mx_history", "history", EmptyStore),
           write(write(mkdir(mkdir(mkdir(NoFiles, "~"), "home"), "tmp"), "home/memex.db", "sqlite", SeededStore),
                 "home/.mx_history", "history", EmptyStore),
           write(mkdir(mkdir(mkdir(NoFiles, "~"), "home"), "tmp"), "home/memex.db", "text", EmptyStore)}
    /\ disk = EmptyStore
    /\ cur = disk
    /\ scope = "closed"
    /\ inTx = FALSE
    /\ last = NoCall
    /\ raised = NoExc
    /\ clock = 0
    /\ log = {}
    /\ pc = Idle

\* one run of mx, from its start to the exit of the process
Mx ==
    /\ scope = "closed"
    /\ clock < MaxCalls
    \* the command lines and the environments of the runs
    /\ \E args \in
       {a \in [sandbox : BOOLEAN, MEMEX_HOME : {"", "home"}, ANTHROPIC_API_KEY : {"", "sk"},
               cmd : {"", "chat", "query", "status", "reset"},
               sql : {"", "SELECT * FROM people WHERE name = 'a'", "SELEKT * FROM nowhere"},
               confirm : BOOLEAN, no_archive : BOOLEAN, stdin : {"", "y", "n", "exit"}, now : 0..1] :
           /\ a.sandbox => a.MEMEX_HOME = ""
           /\ a.cmd \notin {"", "chat"} => a.ANTHROPIC_API_KEY = ""
           /\ a.cmd = "" => a.sandbox
           /\ a.cmd = "query" <=> a.sql # ""
           /\ a.cmd # "reset" => ~a.confirm /\ ~a.no_archive /\ a.now = 0
           /\ a.cmd \in {"query", "status"} => a.stdin = ""
           /\ a.cmd \in {"", "chat"} => a.stdin \in {"", "exit"}
           /\ a.cmd = "reset" =>
                 /\ a.stdin # "exit"
                 /\ a.confirm => a.stdin = ""
                 /\ ~a.confirm => a.now = 0
                 /\ a.sandbox => a.confirm /\ ~a.no_archive /\ a.now = 0} :
       \E res \in {cli(files, [MEMEX_HOME |-> args.MEMEX_HOME, ANTHROPIC_API_KEY |-> args.ANTHROPIC_API_KEY],
                       args, clock + 1)} :
          /\ files' = res.trace[Len(res.trace)]
          /\ last' = [kind |-> "mx",
                      outcome |-> IF res.exit = 0 THEN "ok" ELSE "SystemExit",
                      op |-> args,
                      ret |-> res]
          /\ raised' = IF res.exit = 0 THEN NoExc ELSE "SystemExit"
          /\ clock' = clock + 1
          /\ UNCHANGED <<disk, cur, scope, inTx, log, pc>>

SpecCli == InitCli /\ [][Mx]_vars

-----------------------------------------------------------------------------
\* The memex home of a run of mx: the sandbox directory when it has one.
HomeOf(call) ==
    IF call.op.sandbox THEN call.ret.sandbox_dir[1]
    ELSE _get_memex_home([MEMEX_HOME |-> call.op.MEMEX_HOME])

\* The files of an archive directory.
Archives(fs, dir) == {p \in DOMAIN fs : StartsWith(p, dir \o "/")}

(* C24: a run of mx reset deletes the database file only when it was       *)
(* confirmed, by --confirm or by the answer y.  When confirmation is        *)
(* refused, or when there is no database, the files are at every moment of  *)
(* the run what they were before it (with --sandbox: at its end, the        *)
(* sandbox directory made for the run being removed again).  When           *)
(* confirmed and there is a database, the database file is                  *)
(* gone at the end; without --no-archive every moment at which it is gone   *)
(* comes after a moment at which it is still there and the archive          *)
(* directory holds a file memex_<timestamp>.db with its content, and that   *)
(* file is there at the end; with --no-archive the archive directory and    *)
(* its files are at every moment what they were before the run.             *)
C24_ResetArchivesBeforeDelete ==
    [][ (last'.kind = "mx" /\ last'.op.cmd = "reset") =>
          LET args == last'.op
              tr == last'.ret.trace
              db == HomeOf(last') \o "/memex.db"
              dir == HomeOf(last') \o "/archive"
              confirmed == args.confirm \/ args.stdin = "y"
              copy(fs) == {p \in Archives(fs, dir) :
                              /\ fs[p] = files[db]
                              /\ StartsWith(p, dir \o "/memex_2024")
                              /\ SubSeq(p, Len(p) - 2, Len(p)) = ".db"}
          IN  /\ (db \in DOMAIN files /\ db \notin DOMAIN files') => confirmed
              /\ (~confirmed \/ db \notin DOMAIN files) =>
                    /\ files' = files
                    /\ ~args.sandbox => \A i \in DOMAIN tr : tr[i] = files
              /\ (confirmed /\ db \in DOMAIN files) =>
                    /\ db \notin DOMAIN files'
                    /\ ~args.no_archive =>
                          /\ \A i \in DOMAIN tr :
                                db \notin DOMAIN tr[i] =>
                                   \E j \in 1..(i - 1) : db \in DOMAIN tr[j] /\ copy(tr[j]) # {}
                          /\ copy(files') # {}
                    /\ args.no_archive =>
                          \A i \in DOMAIN tr :
                             /\ Archives(tr[i], dir) = Archives(files, dir)
                             /\ dir \in DOMAIN tr[i] <=> dir \in DOMAIN files
                             /\ \A p \in Archives(files, dir) : tr[i][p] = files[p]
      ]_vars

\* A reset confirmed by the answer y has archived the tables of an earlier
\* session and deleted the database and the history.
C24_Witness ==
    /\ last.kind = "mx"
    /\ last.op.cmd = "reset"
    /\ ~last.op.confirm
    /\ last.op.stdin = "y"
    /\ ~last.op.no_archive
    /\ HomeOf(last) \o "/memex.db" \notin DOMAIN files
    /\ HomeOf(last) \o "/.mx_history" \notin DOMAIN files
    /\ \E p \in Archives(files, HomeOf(last) \o "/archive") : files[p].store = SeededStore

-----------------------------------------------------------------------------
-----------------------------------------------------------------------------
(* _execute_update and _execute_delete statement by statement, with a      *)
(* second connection to the same file writing in between.                  *)

\* Variant: the write raises when the row is not there any more.
_execute_write_checked(conn, op, n) ==
    IF op.id \notin DOMAIN RowsOf(conn.cur, op.table)
    THEN Outcome(RowNotFound(op.id, op.table), conn, "None", <<ExistsSQL(op.table)>>)
    ELSE query_execute(conn, op, n)

\* _execute_update / _execute_delete after the pre-check has found the row:
\* the UPDATE or the DELETE
_execute_write(conn, op, n) ==
    LET columns == Keys(op.data)
        sql == IF op.kind = "Update"
               THEN [verb |-> "UPDATE",
                     table |-> op.table,
                     set |-> [i \in DOMAIN columns |-> <<columns[i], Ph(columns[i])>>],
                     where |-> Ph("id")]
               ELSE [verb |-> "DELETE FROM", table |-> op.table, where |-> Ph("id")]
        params == IF op.kind = "Update"
                  THEN [k \in DOMAIN op.data \cup {"id"} |-> IF k = "id" THEN op.id ELSE op.data[k]]
                  ELSE [k \in {"id"} |-> op.id]
    IN  CHOOSE out \in
            {Outcome(r2.err, r2.conn, "None", <<ExistsSQL(op.table), sql>>) :
                r2 \in {ConnExecute(conn, sql, params, n)}} : TRUE

\* The executor runs the pre-check of an Update or a Delete: it raises when
\* the SELECT fails or finds no row, and goes on to the write otherwise.
PreCheck ==
    /\ scope = "open"
    /\ pc = Idle
    /\ clock < MaxOps
    /\ \E op \in UpdateOps \cup DeleteOps :
       \E r1 \in {ConnExecute(Here, ExistsSQL(op.table), [k \in {"id"} |-> op.id], clock + 1)} :
          IF r1.err # "" \/ r1.rows = <<>>
          THEN Return(op, Outcome(IF r1.err # "" THEN r1.err ELSE RowNotFound(op.id, op.table),
                                  r1.conn, "None", <<ExistsSQL(op.table)>>))
          ELSE /\ pc' = [at |-> "checked", op |-> op, rows |-> r1.rows]
               /\ cur' = r1.conn.cur
               /\ disk' = r1.conn.disk
               /\ inTx' = r1.conn.inTx
               /\ UNCHANGED <<scope, last, raised, clock, files, log>>

\* The executor runs the UPDATE or the DELETE and returns.
Write ==
    /\ scope = "open"
    /\ pc # Idle
    /\ \E res \in {_execute_write(Here, pc.op, clock + 1)} : Return(pc.op, res)

\* Another connection to the same file deletes a row and commits.  SQLite
\* lets it write only while this connection holds no transaction.
ExternalWrite ==
    /\ ~inTx
    /\ \E t \in UserTables :
       \E i \in DOMAIN RowsOf(disk, t) :
       \E r \in {Exec(disk, [verb |-> "DELETE FROM", table |-> t, where |-> Ph("id")],
                      [k \in {"id"} |-> i], clock)} :
          /\ disk' = r.store
          /\ cur' = r.store
          /\ UNCHANGED <<scope, inTx, last, raised, clock, files, log, pc>>

NextRace ==
    \/ pc = Idle /\ Connect
    \/ pc = Idle /\ Exit
    \/ pc = Idle /\ ExecuteInsert
    \/ PreCheck
    \/ Write
    \/ ExternalWrite

SpecRace == Init /\ [][NextRace]_vars

(* C26: the pre-check and the write of an Update or a Delete are two steps *)
(* between which another connection can delete the row the pre-check       *)
(* found.  The write that follows then never raises RowNotFound and        *)
(* changes no row of any table; when the statement names only columns of   *)
(* the table it completes: the call returns without an exception and the   *)
(* scope stays open.  While the row is still there the two steps do        *)
(* together what the executor does in one.                                 *)
C26_CheckThenWriteNotAtomic ==
    [][ (pc # Idle /\ pc' = Idle) =>
          LET op == pc.op
              cols == cur.tables[op.table].cols
              known == op.kind = "Delete" \/ \A k \in DOMAIN op.data : \E i \in DOMAIN cols : cols[i].name = k
          IN  /\ pc.rows # <<>>
              /\ last'.kind = op.kind
              /\ IF op.id \notin DOMAIN RowsOf(cur, op.table)
                 THEN /\ last'.outcome # RowNotFound(op.id, op.table)
                      /\ cur'.tables = cur.tables
                      /\ disk' = disk
                      /\ known =>
                            /\ last'.outcome = "ok"
                            /\ raised' = NoExc
                            /\ scope' = "open"
                 ELSE \E res \in {query_execute(Here, op, clock + 1)} :
                         /\ last'.outcome = (IF res.exc = "" THEN "ok" ELSE res.exc)
                         /\ res.exc = "" =>
                               /\ cur' = res.conn.cur
                               /\ disk' = res.conn.disk
                               /\ inTx' = res.conn.inTx
                         /\ res.exc # "" => scope' = "closed" /\ raised' = res.exc
      ]_vars

\* An Update has returned normally in an open scope, and the row it names
\* is not in the table: it was deleted after the pre-check.
C26_Witness ==
    /\ scope = "open"
    /\ pc = Idle
    /\ last.kind = "Update"
    /\ last.outcome = "ok"
    /\ raised = NoExc
    /\ inTx
    /\ last.op.id \notin DOMAIN RowsOf(cur, last.op.table)

====
